---- MODULE Spec2Model ----
(***************************************************************************)
(* The real-time scheduling class of kernel/sched/rt.c (CONFIG_SMP, no     *)
(* CONFIG_RT_GROUP_SCHED): run-queue store, bandwidth throttling,          *)
(* push/pull migration and the IPI relay.                                  *)
(*                                                                         *)
(* The kernel state is a record W = [rq, task, rd, bw]; every kernel       *)
(* function is an operator from W to the W it leaves behind.               *)
(***************************************************************************)
EXTENDS Integers, Sequences, FiniteSets, TLC

\* ------------------------------------------------------------------ bounds
NCPU == 2                     \* CPUs 0..NCPU-1 of the root domain
MaxDelta == 2                 \* largest delta_exec one accounting step adds
MaxTime == 4                  \* cap on rt_time (guards only)
MaxOverrun == 2               \* largest overrun one timer expiry reports
MaxClock == 2                 \* cap on rq_clock_task (guards only)
NRelay == 3                   \* CPUs of the root domain the IPI relay runs in
MaxLoop == 3                  \* cap on rto_loop_next (guards only)
NFluid == 3                   \* CPUs the fluid placement chooses from
FluidLow == 50                \* rt utilization of a light task
FluidHigh == 600              \* rt utilization of a heavy task
FluidUtil == 200              \* fair utilization a task can carry
FluidMargin == 600            \* schedtune margin of a boosted task
FluidBusy == 900              \* fair utilization of a loaded CPU
LowPrio == 3                  \* a priority below every initial one
EmsSmall == 20                \* utilization of a light fair task
EmsBig == 320                 \* utilization of a heavy fair task
EmsBusyPct == 90              \* fair load of a busy CPU, percent of capacity
OverutilRatio == 80           \* overutilized above this percent of capacity

\* ------------------------------------------------------- program constants
MAX_RT_PRIO == 100
MAX_PRIO == 140
RT_MAX_TRIES == 3
RUNTIME_INF == 1000000        \* stands for (u64)~0ULL: above every finite runtime
ULLONG_MAX == 100000000       \* above every load
RR_TIMESLICE == 2
EINVAL == 22
GlobalPeriod == 3             \* def_rt_bandwidth.rt_period, in model time units
GlobalRuntime == 2            \* def_rt_bandwidth.rt_runtime

CPUS == 0 .. (NCPU - 1)
RCPUS == 0 .. (NRelay - 1)
TASKS == {"t1", "t2", "t3"}
IDLE == "idle"                \* the per-CPU idle task: not real-time, prio MAX_PRIO
NULL == "NULL"                \* no task

\* -------------------------------------------------------------- utilities
Min(a, b) == IF a < b THEN a ELSE b
Max(a, b) == IF a > b THEN a ELSE b
Remove(s, x) == SelectSeq(s, LAMBDA y : y # x)
InSeq(s, x) == \E i \in 1 .. Len(s) : s[i] = x

\* a BUG_ON / WARN_ON that fires is recorded by name
BugOn(W, cond, name) == IF cond THEN [W EXCEPT !.bug = @ \cup {name}] ELSE W

\* ------------------------------------------------------------ task fields
\* a sched_avg that has been brought up to the clock once and holds nothing
InitAvg ==
  [ util_avg |-> 0, util_sum |-> 0, load_avg |-> 0, load_sum |-> 0,
    last_update_time |-> 1, period_contrib |-> 0 ]

\* Fixed attributes of the three tasks at creation; prio and affinity can be
\* changed later by the setscheduler / set_cpus_allowed operations.
InitPrio(t) == IF t = "t3" THEN 2 ELSE 1

\* t2 is SCHED_RR, the others SCHED_FIFO; t3 is pinned to CPU 0
InitTask(t) ==
  [ prio |-> InitPrio(t), policy |-> IF t = "t2" THEN "RR" ELSE "FIFO",
    cpus_allowed |-> IF t = "t3" THEN {0} ELSE CPUS, cpu |-> 0,
    on_rq |-> 0, on_cpu |-> FALSE, class |-> "rt",
    rt_on_rq |-> 0, rt_on_list |-> 0,
    time_slice |-> RR_TIMESLICE, victim_flag |-> 0,
    avg |-> [InitAvg EXCEPT !.period_contrib = 1023] ]

nr_cpus_allowed(W, p) == Cardinality(W.task[p].cpus_allowed)
prio_of(W, p) == IF p = IDLE THEN MAX_PRIO ELSE W.task[p].prio
rt_task(W, p) == p # IDLE /\ W.task[p].prio < MAX_RT_PRIO
task_running(W, p) == W.task[p].on_cpu
task_on_rq_queued(W, p) == W.task[p].on_rq = 1
task_current(W, c, p) == W.rq[c].curr = p

\* ------------------------------------------------------------- init_rt_rq
init_rt_rq ==
  [ active |-> [ bitmap |-> {MAX_RT_PRIO},
                 queue |-> [i \in 0 .. (MAX_RT_PRIO - 1) |-> << >>] ],
    highest_prio |-> [ curr |-> MAX_RT_PRIO, next |-> MAX_RT_PRIO ],
    rt_nr_running |-> 0, rr_nr_running |-> 0,
    rt_nr_total |-> 0, rt_nr_migratory |-> 0, overloaded |-> 0,
    pushable_tasks |-> << >>,
    rt_queued |-> 0, rt_time |-> 0, rt_throttled |-> 0, rt_runtime |-> 0,
    avg |-> InitAvg, removed_util_avg |-> 0, removed_load_avg |-> 0,
    curr |-> NULL ]

\* sched_init: init_rt_rq, then rq->rt.rt_runtime = def_rt_bandwidth.rt_runtime
InitRq(runtime) ==
  [ rt |-> [init_rt_rq EXCEPT !.rt_runtime = runtime],
    nr_running |-> 0, curr |-> IDLE, online |-> TRUE, need_resched |-> FALSE,
    push_cb |-> FALSE, pull_cb |-> FALSE, clock_task |-> 1 ]

InitRd ==
  [ rto_mask |-> {}, rto_count |-> 0,
    rto_loop_next |-> 0, rto_loop |-> 0, rto_cpu |-> -1,
    rto_loop_start |-> 0, rto_lock |-> -1, rto_push_work |-> -1,
    refcount |-> 0 ]

\* init_rt_bandwidth(&def_rt_bandwidth, global_rt_period(), global_rt_runtime())
InitBw(runtime) ==
  [ rt_period |-> GlobalPeriod, rt_runtime |-> runtime,
    rt_period_active |-> 0 ]

sched_find_first_bit(bitmap) ==
  CHOOSE x \in bitmap : \A y \in bitmap : x <= y

\* ------------------------------------------------ overload / root domain
rt_overloaded(W) == W.rd.rto_count

rt_set_overload(W, c) ==
  IF ~W.rq[c].online THEN W
  ELSE [W EXCEPT !.rd.rto_mask = @ \cup {c}, !.rd.rto_count = @ + 1]

rt_clear_overload(W, c) ==
  IF ~W.rq[c].online THEN W
  ELSE [W EXCEPT !.rd.rto_count = @ - 1, !.rd.rto_mask = @ \ {c}]

\* variant: the flag is only ever raised, never cleared
update_raises_only(W, c) ==
  LET rt == W.rq[c].rt IN
  IF rt.rt_nr_migratory > 0 /\ rt.rt_nr_total > 1 /\ rt.overloaded = 0
  THEN [rt_set_overload(W, c) EXCEPT !.rq[c].rt.overloaded = 1]
  ELSE W

update_rt_migration(W, c) ==
  LET rt == W.rq[c].rt IN
  IF rt.rt_nr_migratory > 0 /\ rt.rt_nr_total > 1
  THEN IF rt.overloaded = 0
       THEN [rt_set_overload(W, c) EXCEPT !.rq[c].rt.overloaded = 1]
       ELSE W
  ELSE IF rt.overloaded # 0
       THEN [rt_clear_overload(W, c) EXCEPT !.rq[c].rt.overloaded = 0]
       ELSE W

has_pushable_tasks(W, c) == W.rq[c].rt.pushable_tasks # << >>

enqueue_pushable_task(W, c, p) ==
  LET \* plist_add: after every node whose prio is not greater
      plist_add(t) ==
        LET n == Cardinality({i \in 1 .. Len(t) :
                                prio_of(W, t[i]) <= prio_of(W, p)})
        IN SubSeq(t, 1, n) \o <<p>> \o SubSeq(t, n + 1, Len(t))
      s == plist_add(Remove(W.rq[c].rt.pushable_tasks, p)) IN
  [W EXCEPT !.rq[c].rt.pushable_tasks = s,
            !.rq[c].rt.highest_prio.next =
                IF prio_of(W, p) < @ THEN prio_of(W, p) ELSE @]

dequeue_pushable_task(W, c, p) ==
  LET s == Remove(W.rq[c].rt.pushable_tasks, p) IN
  [W EXCEPT !.rq[c].rt.pushable_tasks = s,
            !.rq[c].rt.highest_prio.next =
                IF s # << >> THEN prio_of(W, s[1]) ELSE MAX_RT_PRIO]

\* ----------------------------------------------------- bandwidth helpers
rt_bandwidth_enabled(W) == W.bw.rt_runtime # RUNTIME_INF
sched_rt_runtime(W, c) == W.rq[c].rt.rt_runtime
sched_rt_period(W, c) == W.bw.rt_period
rt_rq_throttled(W, c) == W.rq[c].rt.rt_throttled # 0

\* -------------------------------------------- top-level ready accounting
dequeue_top_rt_rq(W, c) ==
  IF W.rq[c].rt.rt_queued = 0 THEN W
  ELSE [W EXCEPT !.rq[c].nr_running = @ - W.rq[c].rt.rt_nr_running,
                 !.rq[c].rt.rt_queued = 0]

enqueue_top_rt_rq(W, c) ==
  IF W.rq[c].rt.rt_queued # 0 THEN W
  ELSE IF rt_rq_throttled(W, c) \/ W.rq[c].rt.rt_nr_running = 0 THEN W
  ELSE [W EXCEPT !.rq[c].nr_running = @ + W.rq[c].rt.rt_nr_running,
                 !.rq[c].rt.rt_queued = 1]

resched_curr(W, c) == [W EXCEPT !.rq[c].need_resched = TRUE]

\* variant: taking the run-queue off the top level also empties its count
sched_rt_rq_dequeue_drops(W, c) ==
  [dequeue_top_rt_rq(W, c) EXCEPT !.rq[c].rt.rt_nr_running = 0]

sched_rt_rq_dequeue(W, c) == dequeue_top_rt_rq(W, c)

\* ------------------------------------------------------ priority summary
inc_rt_prio(W, c, prio) ==
  [W EXCEPT !.rq[c].rt.highest_prio.curr = IF prio < @ THEN prio ELSE @]

\* variant: the summary is not recomputed when the highest task leaves
dec_rt_prio_stale(W, c, prio) ==
  LET rt == W.rq[c].rt
      prev_prio == rt.highest_prio.curr IN
  IF rt.rt_nr_running > 0
  THEN BugOn(W, prio < prev_prio, "dec_prio_above_highest")
  ELSE [W EXCEPT !.rq[c].rt.highest_prio.curr = MAX_RT_PRIO]

dec_rt_prio(W, c, prio) ==
  LET rt == W.rq[c].rt
      prev_prio == rt.highest_prio.curr IN
  IF rt.rt_nr_running > 0
  THEN IF prio = prev_prio
       THEN [W EXCEPT !.rq[c].rt.highest_prio.curr =
                          sched_find_first_bit(rt.active.bitmap)]
       ELSE BugOn(W, prio < prev_prio, "dec_prio_above_highest")
  ELSE [W EXCEPT !.rq[c].rt.highest_prio.curr = MAX_RT_PRIO]

inc_rt_tasks(W, c, p) ==
  LET inc_rt_migration(V) ==
        update_rt_migration(
          [V EXCEPT !.rq[c].rt.rt_nr_total = @ + 1,
                    !.rq[c].rt.rt_nr_migratory =
                        IF nr_cpus_allowed(V, p) > 1 THEN @ + 1 ELSE @], c)
      \* inc_rt_group is start_rt_bandwidth(&def_rt_bandwidth)
      start_rt_bandwidth(V) ==
        IF ~rt_bandwidth_enabled(V) \/ V.bw.rt_runtime = RUNTIME_INF THEN V
        ELSE IF V.bw.rt_period_active = 0
             THEN [V EXCEPT !.bw.rt_period_active = 1]
             ELSE V
      prio == prio_of(W, p)
      W1 == [W EXCEPT !.rq[c].rt.rt_nr_running = @ + 1,
                      !.rq[c].rt.rr_nr_running =
                          IF W.task[p].policy = "RR" THEN @ + 1 ELSE @]
      W2 == inc_rt_prio(W1, c, prio)
  IN start_rt_bandwidth(inc_rt_migration(W2))

dec_rt_tasks(W, c, p) ==
  LET dec_rt_migration(V) ==
        update_rt_migration(
          [V EXCEPT !.rq[c].rt.rt_nr_total = @ - 1,
                    !.rq[c].rt.rt_nr_migratory =
                        IF nr_cpus_allowed(V, p) > 1 THEN @ - 1 ELSE @], c)
      W1 == [W EXCEPT !.rq[c].rt.rt_nr_running = @ - 1,
                      !.rq[c].rt.rr_nr_running =
                          IF W.task[p].policy = "RR" THEN @ - 1 ELSE @]
      W2 == dec_rt_prio(W1, c, prio_of(W, p))
  IN dec_rt_migration(W2)

\* ------------------------------------------------------- priority array
\* flags are sets of flag names; ENQUEUE_RESTORE and DEQUEUE_SAVE are the same
\* bit and both read "SAVE", ENQUEUE_MOVE and DEQUEUE_MOVE both read "MOVE"
move_entity(flags) == ~("SAVE" \in flags /\ "MOVE" \notin flags)

\* variant: the bit of a list that became empty is left set
delist_keeps_bit(W, c, p) ==
  LET prio == prio_of(W, p)
      q == Remove(W.rq[c].rt.active.queue[prio], p) IN
  [W EXCEPT !.rq[c].rt.active.queue[prio] = q, !.task[p].rt_on_list = 0]

__delist_rt_entity(W, c, p) ==
  LET prio == prio_of(W, p)
      q == Remove(W.rq[c].rt.active.queue[prio], p) IN
  [W EXCEPT !.rq[c].rt.active.queue[prio] = q,
            !.rq[c].rt.active.bitmap = IF q = << >> THEN @ \ {prio} ELSE @,
            !.task[p].rt_on_list = 0]

\* ---------------------------------------------------------- load tracking
\* Time (rq_clock_task) is counted in units of LOAD_AVG_PERIOD periods of
\* 1024 us, the half-life of the averages, so an update spans a whole number
\* of periods and leaves period_contrib as it was.
LOAD_AVG_MAX == 47742
LOAD_AVG_PERIOD == 32

\* decay_load(val, n) for n = units * LOAD_AVG_PERIOD periods: one halving per
\* unit, then the multiplication by runnable_avg_yN_inv[0] >> 32
decay_load(val, units) ==
  LET v == val \div (2 ^ units) IN IF v = 0 THEN 0 ELSE v - 1

\* returns the updated sched_avg sa
__update_load_avg(sa, now, weight, running) ==
  LET delta == now - sa.last_update_time
      periods == delta * LOAD_AVG_PERIOD
      \* accumulate_sum_rt with scale_freq = scale_cpu = SCHED_CAPACITY_SCALE
      contrib == decay_load(1024 - sa.period_contrib, delta)
                   + (LOAD_AVG_MAX - decay_load(LOAD_AVG_MAX, delta) - 1024)
                   + sa.period_contrib
      load_sum == decay_load(sa.load_sum, delta)
                    + (IF weight # 0 THEN weight * contrib ELSE 0)
      util_sum == decay_load(sa.util_sum, delta)
                    + (IF running /\ weight # 0 THEN contrib * 1024 ELSE 0)
      divider == LOAD_AVG_MAX - 1024 + sa.period_contrib
  IN IF delta < 0 THEN [sa EXCEPT !.last_update_time = now]
     ELSE IF delta = 0 THEN sa
     ELSE [sa EXCEPT !.last_update_time = @ + delta,
                     !.load_sum = load_sum, !.util_sum = util_sum,
                     !.load_avg = IF periods # 0 THEN load_sum \div divider
                                  ELSE @,
                     !.util_avg = IF periods # 0 THEN util_sum \div divider
                                  ELSE @]

sub_positive(x, y) == IF x - y > 0 THEN x - y ELSE 0

\* the run-queue's own averages: what tasks that migrated away have left in
\* removed_load_avg / removed_util_avg is taken off, then the averages are
\* brought up to the clock
update_rt_rq_load_avg(W, c, running) ==
  LET rt == W.rq[c].rt
      removed ==
        [rt.avg EXCEPT
           !.load_avg = sub_positive(@, rt.removed_load_avg),
           !.load_sum = sub_positive(@, rt.removed_load_avg * LOAD_AVG_MAX),
           !.util_avg = sub_positive(@, rt.removed_util_avg),
           !.util_sum = sub_positive(@, rt.removed_util_avg * LOAD_AVG_MAX)]
  IN [W EXCEPT !.rq[c].rt.removed_load_avg = 0,
               !.rq[c].rt.removed_util_avg = 0,
               !.rq[c].rt.avg =
                   __update_load_avg(removed, W.rq[c].clock_task,
                                     IF rt.rt_nr_running # 0 THEN 1024 ELSE 0,
                                     running)]

\* update_rt_load_avg(rq_clock_task(rq), &p->rt)
update_rt_load_avg(W, c, p) ==
  LET running == W.rq[c].rt.curr = p
      W1 == IF W.task[p].avg.last_update_time # 0
            THEN [W EXCEPT !.task[p].avg =
                     __update_load_avg(@, W.rq[c].clock_task, 1024, running)]
            ELSE W
  IN update_rt_rq_load_avg(W1, c, running)

\* variant: the attach stamps the entity and adds nothing to the run-queue
attach_rt_entity_load_avg_stamp_only(W, c, p) ==
  [W EXCEPT !.task[p].avg.last_update_time = W.rq[c].rt.avg.last_update_time]

attach_rt_entity_load_avg(W, c, p) ==
  LET se == W.task[p].avg IN
  [W EXCEPT !.task[p].avg.last_update_time = W.rq[c].rt.avg.last_update_time,
            !.rq[c].rt.avg.util_avg = @ + se.util_avg,
            !.rq[c].rt.avg.util_sum = @ + se.util_sum,
            !.rq[c].rt.avg.load_avg = @ + se.load_avg,
            !.rq[c].rt.avg.load_sum = @ + se.load_sum]

detach_rt_entity_load_avg(W, c, p) ==
  LET se == W.task[p].avg IN
  [W EXCEPT !.rq[c].rt.avg.util_avg = sub_positive(@, se.util_avg),
            !.rq[c].rt.avg.util_sum = sub_positive(@, se.util_sum),
            !.rq[c].rt.avg.load_avg = sub_positive(@, se.load_avg),
            !.rq[c].rt.avg.load_sum = sub_positive(@, se.load_sum)]

\* variant: the stamp of the migrated task is not reset, so the enqueue on
\* the new CPU takes it for attached
migrate_task_rq_rt_keeps_stamp(W, p) ==
  LET c == W.task[p].cpu
      synced == __update_load_avg(W.task[p].avg,
                                  W.rq[c].rt.avg.last_update_time, 1024,
                                  W.rq[c].rt.curr = p)
  IN [W EXCEPT !.rq[c].rt.removed_load_avg = @ + synced.load_avg,
               !.rq[c].rt.removed_util_avg = @ + synced.util_avg,
               !.task[p].avg = synced]

\* migrate_task_rq_rt(p), called by set_task_cpu while p is still on its old
\* CPU c: remove_rt_entity_load_avg (sync_rt_entity_load_avg, then the
\* averages go to the removed_* counters of the old run-queue), then
\* last_update_time = 0
migrate_task_rq_rt(W, p) ==
  LET c == W.task[p].cpu
      synced == __update_load_avg(W.task[p].avg,
                                  W.rq[c].rt.avg.last_update_time, 1024,
                                  W.rq[c].rt.curr = p)
  IN [W EXCEPT !.rq[c].rt.removed_load_avg = @ + synced.load_avg,
               !.rq[c].rt.removed_util_avg = @ + synced.util_avg,
               !.task[p].avg = [synced EXCEPT !.last_update_time = 0]]

__enqueue_rt_entity(W, c, p, flags) ==
  LET prio == prio_of(W, p)
      W1 == IF move_entity(flags)
            THEN [BugOn(W, W.task[p].rt_on_list # 0, "enqueue_on_list")
                    EXCEPT !.rq[c].rt.active.queue[prio] =
                               IF "HEAD" \in flags THEN <<p>> \o @
                                                   ELSE Append(@, p),
                           !.rq[c].rt.active.bitmap = @ \cup {prio},
                           !.task[p].rt_on_list = 1]
            ELSE W
      W2 == update_rt_load_avg([W1 EXCEPT !.task[p].rt_on_rq = 1], c, p)
      W3 == IF W2.task[p].avg.last_update_time = 0
            THEN attach_rt_entity_load_avg(W2, c, p) ELSE W2
  IN inc_rt_tasks(W3, c, p)

__dequeue_rt_entity(W, c, p, flags) ==
  LET W1 == IF move_entity(flags)
            THEN __delist_rt_entity(
                   BugOn(W, W.task[p].rt_on_list = 0, "dequeue_not_on_list"),
                   c, p)
            ELSE W
      W2 == update_rt_load_avg([W1 EXCEPT !.task[p].rt_on_rq = 0], c, p)
  IN dec_rt_tasks(W2, c, p)

on_rt_rq(W, p) == W.task[p].rt_on_rq # 0

dequeue_rt_stack(W, c, p, flags) ==
  \* the one-level for_each_sched_rt_entity(back) loop
  LET back(V) ==
        IF on_rt_rq(V, p) THEN __dequeue_rt_entity(V, c, p, flags) ELSE V
  IN back(dequeue_top_rt_rq(W, c))

enqueue_rt_entity(W, c, p, flags) ==
  LET W1 == dequeue_rt_stack(W, c, p, flags)
      W2 == __enqueue_rt_entity(W1, c, p, flags)
  IN enqueue_top_rt_rq(W2, c)

dequeue_rt_entity(W, c, p, flags) ==
  enqueue_top_rt_rq(dequeue_rt_stack(W, c, p, flags), c)

\* requeue_task_rt: requeue_rt_entity of the task's one entity
requeue_task_rt(W, c, p, head) ==
  IF on_rt_rq(W, p)
  THEN LET prio == prio_of(W, p)
           q == Remove(W.rq[c].rt.active.queue[prio], p) IN
       [W EXCEPT !.rq[c].rt.active.queue[prio] =
                     IF head THEN <<p>> \o q ELSE Append(q, p)]
  ELSE W

\* ------------------------------------------------------ runtime borrowing
RECURSIVE balance_takes_all_spare(_, _, _)
\* variant: the whole spare time of a peer is taken, not 1/weight of it
balance_takes_all_spare(W, c, i) ==
  IF i >= NCPU THEN W
  ELSE IF i = c \/ W.rq[i].rt.rt_runtime = RUNTIME_INF
       THEN balance_takes_all_spare(W, c, i + 1)
  ELSE LET spare == W.rq[i].rt.rt_runtime - W.rq[i].rt.rt_time
           room == W.bw.rt_period - W.rq[c].rt.rt_runtime
           diff == IF spare > room THEN room ELSE spare IN
       IF spare > 0
       THEN balance_takes_all_spare(
              [W EXCEPT !.rq[i].rt.rt_runtime = @ - diff,
                        !.rq[c].rt.rt_runtime = @ + diff,
                        !.lend = @ \cup
                           {[ lender |-> i, borrower |-> c,
                              rt_runtime |-> W.rq[i].rt.rt_runtime,
                              rt_time |-> W.rq[i].rt.rt_time,
                              weight |-> NCPU, diff |-> diff ]}], c, i + 1)
       ELSE balance_takes_all_spare(W, c, i + 1)

RECURSIVE do_balance_runtime_from(_, _, _)
\* the for_each_cpu(i, rd->span) loop of do_balance_runtime, from CPU i on
do_balance_runtime_from(W, c, i) ==
  IF i \notin DOMAIN W.rq THEN W
  ELSE IF i = c \/ W.rq[i].rt.rt_runtime = RUNTIME_INF
       THEN do_balance_runtime_from(W, c, i + 1)
  ELSE LET weight == Cardinality(DOMAIN W.rq)
           rt_period == W.bw.rt_period
           spare == W.rq[i].rt.rt_runtime - W.rq[i].rt.rt_time IN
       IF spare > 0
       THEN LET d0 == spare \div weight
                diff == IF W.rq[c].rt.rt_runtime + d0 > rt_period
                        THEN rt_period - W.rq[c].rt.rt_runtime ELSE d0
                W1 == [W EXCEPT !.rq[i].rt.rt_runtime = @ - diff,
                                !.rq[c].rt.rt_runtime = @ + diff,
                                !.lend = @ \cup
                                   {[ lender |-> i, borrower |-> c,
                                      rt_runtime |-> W.rq[i].rt.rt_runtime,
                                      rt_time |-> W.rq[i].rt.rt_time,
                                      weight |-> weight, diff |-> diff ]}] IN
            IF W1.rq[c].rt.rt_runtime = rt_period THEN W1
            ELSE do_balance_runtime_from(W1, c, i + 1)
       ELSE do_balance_runtime_from(W, c, i + 1)

balance_runtime(W, c) ==
  IF ~W.feat.RT_RUNTIME_SHARE THEN W
  ELSE IF W.rq[c].rt.rt_time > W.rq[c].rt.rt_runtime
       THEN do_balance_runtime_from(W, c, 0)      \* do_balance_runtime
       ELSE W

\* variant: the throttled run-queue is left on the ready set
exceeded_keeps_queued(W, c) ==
  IF W.rq[c].rt.rt_throttled # 0 THEN [W |-> W, ret |-> 1]
  ELSE IF sched_rt_runtime(W, c) >= sched_rt_period(W, c)
  THEN [W |-> W, ret |-> 0]
  ELSE IF W.rq[c].rt.rt_time > sched_rt_runtime(W, c)
       THEN [W |-> [W EXCEPT !.rq[c].rt.rt_throttled = 1], ret |-> 1]
       ELSE [W |-> W, ret |-> 0]

\* variant: a run-queue is throttled as soon as rt_time reaches the quota
exceeded_at_quota(W, c) ==
  IF W.rq[c].rt.rt_throttled # 0 THEN [W |-> W, ret |-> 1]
  ELSE IF sched_rt_runtime(W, c) >= sched_rt_period(W, c)
  THEN [W |-> W, ret |-> 0]
  ELSE IF W.rq[c].rt.rt_time >= sched_rt_runtime(W, c)
       THEN [W |-> sched_rt_rq_dequeue(
                     [W EXCEPT !.rq[c].rt.rt_throttled = 1], c), ret |-> 1]
       ELSE [W |-> W, ret |-> 0]

\* returns [W, ret]
sched_rt_runtime_exceeded(W, c) ==
  LET \* after the throttle-or-reset assignment
      dequeue(V) ==
        IF rt_rq_throttled(V, c)
        THEN [W |-> sched_rt_rq_dequeue(V, c), ret |-> 1]
        ELSE [W |-> V, ret |-> 0]
      \* after balance_runtime has returned
      check(V) ==
        IF sched_rt_runtime(V, c) = RUNTIME_INF THEN [W |-> V, ret |-> 0]
        ELSE IF V.rq[c].rt.rt_time > sched_rt_runtime(V, c)
        THEN dequeue(IF V.bw.rt_runtime # 0
                     THEN [V EXCEPT !.rq[c].rt.rt_throttled = 1]
                     ELSE [V EXCEPT !.rq[c].rt.rt_time = 0])
        ELSE [W |-> V, ret |-> 0]
  IN IF W.rq[c].rt.rt_throttled # 0
     THEN [W |-> W, ret |-> IF rt_rq_throttled(W, c) THEN 1 ELSE 0]
     ELSE IF sched_rt_runtime(W, c) >= sched_rt_period(W, c)
     THEN [W |-> W, ret |-> 0]
     ELSE check(balance_runtime(W, c))

curr_is_rt(W, c) ==
  W.rq[c].curr # IDLE /\ W.task[W.rq[c].curr].class = "rt"

\* delta_exec = now - curr->se.exec_start: W.delta_exec[c] is the time the
\* clock of CPU c has advanced since exec_start; the update sets exec_start = now
update_curr_rt(W, c) ==
  LET \* if (sched_rt_runtime_exceeded(rt_rq)) resched_curr(rq); r is its
      \* result
      resched(r) == IF r.ret # 0 THEN resched_curr(r.W, c) ELSE r.W
      \* observation, no kernel state: CPU c has just been charged up to
      \* rt_time against a quota that was below the period before any
      \* borrowing and is finite and below rt_time after it
      Overshoot(V, runtime_before, rt_time) ==
        IF /\ runtime_before < sched_rt_period(V, c)
           /\ sched_rt_runtime(V, c) # RUNTIME_INF
           /\ rt_time > sched_rt_runtime(V, c)
        THEN [V EXCEPT !.over = @ \cup {c}] ELSE V
  IN IF ~curr_is_rt(W, c) THEN W
     ELSE IF W.delta_exec[c] <= 0 THEN W
     ELSE IF ~rt_bandwidth_enabled(W) THEN [W EXCEPT !.delta_exec[c] = 0]
     ELSE IF sched_rt_runtime(W, c) # RUNTIME_INF
     THEN Overshoot(
            resched(sched_rt_runtime_exceeded(
                      [W EXCEPT !.delta_exec[c] = 0,
                                !.rq[c].rt.rt_time = @ + W.delta_exec[c]], c)),
            sched_rt_runtime(W, c), W.rq[c].rt.rt_time + W.delta_exec[c])
     ELSE [W EXCEPT !.delta_exec[c] = 0]

\* ------------------------------------------------------------ period timer
RECURSIVE do_sched_rt_period_timer_from(_, _, _, _)

\* the for_each_cpu(i, span) loop; acc = [idle, throttled] so far
do_sched_rt_period_timer_from(W, overrun, i, acc) ==
  LET sched_rt_rq_enqueue(V) ==
        IF V.rq[i].rt.rt_nr_running = 0 THEN V
        ELSE resched_curr(enqueue_top_rt_rq(V, i), i)
      \* the end of one loop body: r = [W, enqueue, busy] of run-queue i
      enqueue(r) ==
        do_sched_rt_period_timer_from(
          IF r.enqueue THEN sched_rt_rq_enqueue(r.W) ELSE r.W,
          overrun, i + 1,
          [ idle |-> IF r.busy THEN 0 ELSE acc.idle,
            throttled |-> IF r.W.rq[i].rt.rt_throttled # 0 THEN 1
                          ELSE acc.throttled ])
      \* if (rt_rq->rt_time) { ... }, after balance_runtime
      time(V) ==
        LET runtime == V.rq[i].rt.rt_runtime
            rt_time == V.rq[i].rt.rt_time
                         - Min(V.rq[i].rt.rt_time, overrun * runtime)
            unthrottle == V.rq[i].rt.rt_throttled # 0 /\ rt_time < runtime IN
        [ W |-> [V EXCEPT !.rq[i].rt.rt_time = rt_time,
                          !.rq[i].rt.rt_throttled =
                              IF unthrottle THEN 0 ELSE @],
          enqueue |-> unthrottle,
          busy |-> rt_time # 0 \/ V.rq[i].rt.rt_nr_running # 0 ]
      \* else if (rt_rq->rt_nr_running) { ... }
      running(V) ==
        [ W |-> V,
          enqueue |-> V.rq[i].rt.rt_nr_running # 0 /\ ~rt_rq_throttled(V, i),
          busy |-> V.rq[i].rt.rt_nr_running # 0 ]
      \* one loop body, after the refresh of a non-shared quota
      body(V) ==
        IF V.rq[i].rt.rt_time = 0 /\ V.rq[i].rt.rt_nr_running = 0
        THEN do_sched_rt_period_timer_from(V, overrun, i + 1, acc)
        ELSE enqueue(IF V.rq[i].rt.rt_time # 0
                     THEN time(IF V.rq[i].rt.rt_throttled # 0
                               THEN balance_runtime(V, i) ELSE V)
                     ELSE running(V))
  IN IF i \notin DOMAIN W.rq
     THEN [W |-> W, idle |-> acc.idle, throttled |-> acc.throttled]
     ELSE IF ~W.rq[i].online
          THEN do_sched_rt_period_timer_from(W, overrun, i + 1, acc)
     ELSE body(IF ~W.feat.RT_RUNTIME_SHARE
                  /\ W.rq[i].rt.rt_runtime # RUNTIME_INF
               THEN [W EXCEPT !.rq[i].rt.rt_runtime = W.bw.rt_runtime]
               ELSE W)

\* variant: the expiry always reports idle
do_sched_rt_period_timer_always_idle(W, overrun) ==
  [ W |-> do_sched_rt_period_timer_from(W, overrun, 0,
                                        [idle |-> 1, throttled |-> 0]).W,
    idle |-> 1 ]

\* returns [W, idle]
do_sched_rt_period_timer(W, overrun) ==
  LET \* the return; r = [W, idle, throttled]
      ret(r) ==
        IF r.throttled = 0 /\ (~rt_bandwidth_enabled(r.W)
                               \/ r.W.bw.rt_runtime = RUNTIME_INF)
        THEN [W |-> r.W, idle |-> 1]
        ELSE [W |-> r.W, idle |-> r.idle]
  IN ret(do_sched_rt_period_timer_from(W, overrun, 0,
                                       [idle |-> 1, throttled |-> 0]))

\* variant: the expiry clears rt_throttled and rt_time and enqueues nothing
sched_rt_period_timer_bare(W, overrun) ==
  [W EXCEPT !.rq = [c \in DOMAIN W.rq |->
                      [W.rq[c] EXCEPT !.rt.rt_throttled = 0, !.rt.rt_time = 0]]]

sched_rt_period_timer(W, overrun) ==
  LET \* if (idle) rt_b->rt_period_active = 0; r = [W, idle]
      idle(r) ==
        IF r.idle # 0 THEN [r.W EXCEPT !.bw.rt_period_active = 0] ELSE r.W
  IN idle(do_sched_rt_period_timer(W, overrun))

\* ------------------------------------------------- scheduling class methods
\* variant: every task enqueued is put on the pushable list
enqueue_task_rt_all_pushable(W, c, p, flags) ==
  enqueue_pushable_task(enqueue_rt_entity(W, c, p, flags), c, p)

enqueue_task_rt(W, c, p, flags) ==
  LET \* if (!task_current(rq, p) && p->nr_cpus_allowed > 1)
      \*     enqueue_pushable_task(rq, p)
      pushable(V) ==
        IF ~task_current(V, c, p) /\ nr_cpus_allowed(V, p) > 1
        THEN enqueue_pushable_task(V, c, p)
        ELSE V
  IN pushable(enqueue_rt_entity(W, c, p, flags))

dequeue_task_rt(W, c, p, flags) ==
  LET W1 == update_curr_rt(W, c)
      W2 == dequeue_rt_entity(W1, c, p, flags)
  IN dequeue_pushable_task(W2, c, p)

\* cpupri_find(&rd->cpupri, p, NULL): some CPU p may run on is online and
\* runs nothing of p's priority or higher
cpupri_find(W, p) ==
  \E c \in W.task[p].cpus_allowed :
     W.rq[c].online /\ W.rq[c].rt.highest_prio.curr > prio_of(W, p)

check_preempt_equal_prio(W, c, p) ==
  LET curr == W.rq[c].curr IN
  IF nr_cpus_allowed(W, curr) = 1 \/ ~cpupri_find(W, curr) THEN W
  ELSE IF nr_cpus_allowed(W, p) # 1 /\ cpupri_find(W, p) THEN W
  ELSE resched_curr(requeue_task_rt(W, c, p, TRUE), c)

\* called by check_preempt_curr when rq->curr is of the rt class too
check_preempt_curr_rt(W, c, p) ==
  LET curr == W.rq[c].curr IN
  IF prio_of(W, p) < prio_of(W, curr) THEN resched_curr(W, c)
  ELSE IF W.task[p].victim_flag # 0                 \* test_victim_flag
       THEN resched_curr(requeue_task_rt(W, c, p, TRUE), c)
  ELSE IF prio_of(W, p) = prio_of(W, curr) /\ ~W.rq[c].need_resched
       THEN check_preempt_equal_prio(W, c, p)
  ELSE W

\* variant: the entity at the tail of the list is taken
pick_next_rt_entity_tail(W, c) ==
  LET idx == sched_find_first_bit(W.rq[c].rt.active.bitmap) IN
  IF idx >= MAX_RT_PRIO THEN NULL
  ELSE IF W.rq[c].rt.active.queue[idx] = << >> THEN NULL
  ELSE W.rq[c].rt.active.queue[idx][Len(W.rq[c].rt.active.queue[idx])]

\* returns the entity at the head of the highest non-empty list, NULL when
\* BUG_ON(idx >= MAX_RT_PRIO) fires (or the list of a set bit is empty)
pick_next_rt_entity(W, c) ==
  LET idx == sched_find_first_bit(W.rq[c].rt.active.bitmap) IN
  IF idx >= MAX_RT_PRIO THEN NULL
  ELSE IF W.rq[c].rt.active.queue[idx] = << >> THEN NULL
  ELSE Head(W.rq[c].rt.active.queue[idx])

put_prev_task_rt(W, c, p) ==
  LET \* if (on_rt_rq(&p->rt) && p->nr_cpus_allowed > 1)
      \*     enqueue_pushable_task(rq, p)
      pushable(V) ==
        IF on_rt_rq(V, p) /\ nr_cpus_allowed(V, p) > 1
        THEN enqueue_pushable_task(V, c, p)
        ELSE V
      \* if (rt_se->on_rq) update_rt_load_avg(now, rt_se); rt_rq->curr = NULL
      load_avg(V) ==
        [(IF on_rt_rq(V, p) THEN update_rt_load_avg(V, c, p) ELSE V)
           EXCEPT !.rq[c].rt.curr = NULL]
  IN load_avg(pushable(update_curr_rt(W, c)))

\* put_prev_task(rq, prev): the hook of prev's own class
put_prev_task(W, c, prev) ==
  IF prev # IDLE /\ W.task[prev].class = "rt"
  THEN put_prev_task_rt(W, c, prev) ELSE W

need_pull_rt_task(W, c, prev) ==
  W.rq[c].rt.highest_prio.curr > prio_of(W, prev)

\* ------------------------------------------------------ core.c entry points
enqueue_task(W, c, p, flags) ==
  IF W.task[p].class = "rt" THEN enqueue_task_rt(W, c, p, flags)
  ELSE [W EXCEPT !.rq[c].nr_running = @ + 1]

dequeue_task(W, c, p, flags) ==
  IF W.task[p].class = "rt" THEN dequeue_task_rt(W, c, p, flags)
  ELSE [W EXCEPT !.rq[c].nr_running = @ - 1]

\* if (task_cpu(p) != new_cpu) p->sched_class->migrate_task_rq(p), then
\* __set_task_cpu
set_task_cpu(W, p, cpu) ==
  [(IF W.task[p].cpu # cpu /\ W.task[p].class = "rt"
    THEN migrate_task_rq_rt(W, p) ELSE W) EXCEPT !.task[p].cpu = cpu]

\* variant: the task is not taken off the source run-queue
move_queued_task_rt_keeps_source(W, src, dst, p) ==
  LET W2 == [W EXCEPT !.task[p].on_rq = 2]
      W3 == set_task_cpu(W2, p, dst)
      W4 == [W3 EXCEPT !.task[p].on_rq = 1]
  IN enqueue_task(W4, dst, p, {})                  \* activate_task

\* deactivate, mark migrating, retarget, mark queued, activate: the body
\* shared by the commit of push_rt_task and of pull_rt_task
move_queued_task_rt(W, src, dst, p) ==
  LET W1 == dequeue_task(W, src, p, {})            \* deactivate_task
      W2 == [W1 EXCEPT !.task[p].on_rq = 2]
      W3 == set_task_cpu(W2, p, dst)
      W4 == [W3 EXCEPT !.task[p].on_rq = 1]
  IN enqueue_task(W4, dst, p, {})                  \* activate_task

\* ------------------------------------------------------------------- push
pick_next_pushable_task(W, c) ==
  IF ~has_pushable_tasks(W, c) THEN NULL
  ELSE Head(W.rq[c].rt.pushable_tasks)

\* the BUG_ON lines of pick_next_pushable_task
pick_next_pushable_task_BUG(W, c) ==
  LET p == pick_next_pushable_task(W, c) IN
  IF p = NULL THEN W
  ELSE LET W1 == BugOn(W, c # W.task[p].cpu, "pushable_wrong_cpu")
           W2 == BugOn(W1, task_current(W, c, p), "pushable_is_current")
           W3 == BugOn(W2, nr_cpus_allowed(W, p) <= 1, "pushable_pinned")
           W4 == BugOn(W3, ~task_on_rq_queued(W, p), "pushable_not_queued")
       IN BugOn(W4, ~rt_task(W, p), "pushable_not_rt")

\* What find_lowest_rq can answer for task: -1, or an online CPU that is in
\* the task's affinity mask or is the task's own CPU (the fall-back of
\* find_lowest_rq_fluid)
find_lowest_rq_results(W, task) ==
  {-1} \cup {c \in DOMAIN W.rq : W.rq[c].online /\
                (c \in W.task[task].cpus_allowed \/ c = W.task[task].cpu)}

\* the test made on the unlocked probe: is cpu worth locking?
probe_accepts(W, c, task, cpu) ==
  /\ cpu # -1
  /\ cpu # c
  /\ ~(W.rq[cpu].rt.highest_prio.curr <= prio_of(W, task))

\* variant: nothing is checked again after the lock was dropped
revalidate_skipped(W, c, task, lowest) == FALSE

\* the re-validation after double_lock_balance had to drop rq->lock
revalidate_fails(W, c, task, lowest) ==
  \/ W.task[task].cpu # c
  \/ lowest \notin W.task[task].cpus_allowed
  \/ task_running(W, task)
  \/ ~rt_task(W, task)
  \/ ~task_on_rq_queued(W, task)

\* variant: a target running a task of equal priority still passes
still_suitable_or_equal(W, task, lowest) ==
  W.rq[lowest].rt.highest_prio.curr >= prio_of(W, task)

\* "If this rq is still suitable use it."
still_suitable(W, task, lowest) ==
  W.rq[lowest].rt.highest_prio.curr > prio_of(W, task)

\* find_lock_lowest_rq when double_lock_balance gets the second lock at once
\* (it returns 0, nothing is re-validated); cpu is the answer of the probe
find_lock_lowest_rq(W, c, task, cpu) ==
  IF ~probe_accepts(W, c, task, cpu) THEN -1
  ELSE IF still_suitable(W, task, cpu) THEN cpu ELSE -1

push_commit(W, c, next_task, lowest) ==
  resched_curr(move_queued_task_rt(W, c, lowest, next_task), lowest)

\* what push_rt_task decides before it looks for a target:
\* "stop", "resched" or "search"
push_precheck(W, c, next_task) ==
  IF next_task = NULL THEN "stop"
  ELSE IF next_task = W.rq[c].curr THEN "stop"
  ELSE IF prio_of(W, next_task) < prio_of(W, W.rq[c].curr) THEN "resched"
  ELSE "search"

\* returns [W, ret]; probe[t] is what find_lowest_rq answers for t
push_rt_task(W, c, probe) ==
  LET \* from the answer of find_lock_lowest_rq on
      lowest_rq(V, next_task, lowest) ==
        IF lowest = -1 THEN [W |-> V, ret |-> 0]
        ELSE [W |-> push_commit(V, c, next_task, lowest), ret |-> 1]
      \* once next_task has been picked
      picked(V, next_task) ==
        IF push_precheck(V, c, next_task) = "stop" THEN [W |-> V, ret |-> 0]
        ELSE IF push_precheck(V, c, next_task) = "resched"
             THEN [W |-> resched_curr(V, c), ret |-> 0]
        ELSE lowest_rq(V, next_task,
               find_lock_lowest_rq(V, c, next_task, probe[next_task]))
  IN IF W.rq[c].rt.overloaded = 0 THEN [W |-> W, ret |-> 0]
     ELSE picked(pick_next_pushable_task_BUG(W, c),
                 pick_next_pushable_task(W, c))

RECURSIVE push_rt_tasks(_, _, _)

\* while (push_rt_task(rq)) ;
push_rt_tasks(W, c, probe) ==
  LET while(r) == IF r.ret # 0 THEN push_rt_tasks(r.W, c, probe) ELSE r.W
  IN while(push_rt_task(W, c, probe))

\* ------------------------------------------------------------------- pull
pick_highest_pushable_task(W, c, cpu) ==
  LET pick_rt_task(p) ==
        ~task_running(W, p) /\ cpu \in W.task[p].cpus_allowed
      s == SelectSeq(W.rq[c].rt.pushable_tasks, pick_rt_task) IN
  IF s = << >> THEN NULL ELSE Head(s)

\* the early returns of pull_rt_task: TRUE when the scan is entered
pull_scans(W, this_cpu) ==
  /\ rt_overloaded(W) # 0
  /\ ~(rt_overloaded(W) = 1 /\ this_cpu \in W.rd.rto_mask)

\* the unlocked filter in front of double_lock_balance
pull_considers(W, this_cpu, cpu) ==
  /\ cpu \in W.rd.rto_mask
  /\ this_cpu # cpu
  /\ ~(W.rq[cpu].rt.highest_prio.next >= W.rq[this_cpu].rt.highest_prio.curr)

\* variant: a task about to preempt the source's running task is pulled too
pull_candidate_no_skip(W, this_cpu, cpu) ==
  LET p == pick_highest_pushable_task(W, cpu, this_cpu) IN
  IF p # NULL /\ prio_of(W, p) < W.rq[this_cpu].rt.highest_prio.curr
  THEN p ELSE NULL

\* the task the locked section of pull_rt_task moves, NULL when none
pull_candidate(W, this_cpu, cpu) ==
  LET p == pick_highest_pushable_task(W, cpu, this_cpu) IN
  IF p # NULL /\ prio_of(W, p) < W.rq[this_cpu].rt.highest_prio.curr
  THEN IF prio_of(W, p) < prio_of(W, W.rq[cpu].curr) THEN NULL ELSE p
  ELSE NULL

\* the section between double_lock_balance and double_unlock_balance
pull_locked(W, this_cpu, cpu) ==
  LET \* the WARN_ON lines; q is the task picked
      WARN(q) ==
        IF q # NULL /\ prio_of(W, q) < W.rq[this_cpu].rt.highest_prio.curr
        THEN BugOn(BugOn(W, q = W.rq[cpu].curr, "pull_is_current"),
                   ~task_on_rq_queued(W, q), "pull_not_queued")
        ELSE W
      moves(V, p) ==
        IF p = NULL THEN V ELSE move_queued_task_rt(V, cpu, this_cpu, p)
  IN moves(WARN(pick_highest_pushable_task(W, cpu, this_cpu)),
           pull_candidate(W, this_cpu, cpu))

RECURSIVE pull_rt_task_from(_, _, _, _)
pull_rt_task_from(W, this_cpu, cpu, resched) ==
  IF cpu \notin DOMAIN W.rq
  THEN IF resched THEN resched_curr(W, this_cpu) ELSE W
  ELSE IF ~pull_considers(W, this_cpu, cpu)
       THEN pull_rt_task_from(W, this_cpu, cpu + 1, resched)
  ELSE pull_rt_task_from(pull_locked(W, this_cpu, cpu), this_cpu, cpu + 1,
                         resched \/ pull_candidate(W, this_cpu, cpu) # NULL)

\* -------------------------------------------------------------- IPI relay
nr_cpu_ids == IF NCPU > NRelay THEN NCPU ELSE NRelay

\* first half of one turn of the for (;;) loop of rto_next_cpu:
\* cpu = cpumask_next(rd->rto_cpu, rd->rto_mask); rd->rto_cpu = cpu;
\* and, when the mask is exhausted, rd->rto_cpu = -1
rto_next_cpu_scan(W) ==
  LET cpumask_next(n, mask) ==
        IF \E c \in mask : c > n
        THEN CHOOSE c \in mask : c > n /\ \A d \in mask : d > n => c <= d
        ELSE nr_cpu_ids
      cpu == cpumask_next(W.rd.rto_cpu, W.rd.rto_mask) IN
  IF cpu < nr_cpu_ids
  THEN [W |-> [W EXCEPT !.rd.rto_cpu = cpu], cpu |-> cpu]
  ELSE [W |-> [W EXCEPT !.rd.rto_cpu = -1], cpu |-> -1]

\* second half: next = atomic_read_acquire(&rd->rto_loop_next); done is the
\* break of the loop
rto_next_cpu_check(W) ==
  LET next == W.rd.rto_loop_next IN
  IF W.rd.rto_loop = next THEN [W |-> W, done |-> TRUE]
  ELSE [W |-> [W EXCEPT !.rd.rto_loop = next], done |-> FALSE]

RECURSIVE rto_next_cpu(_)
\* returns [W, cpu], with nothing running between the steps
rto_next_cpu(W) ==
  LET a == rto_next_cpu_scan(W) IN
  IF a.cpu >= 0 THEN a
  ELSE LET b == rto_next_cpu_check(a.W) IN
       IF b.done THEN [W |-> b.W, cpu |-> -1] ELSE rto_next_cpu(b.W)

irq_work_queue_on(W, cpu) ==
  [W EXCEPT !.rd.rto_push_work = IF @ = -1 THEN cpu ELSE @]

\* if (cpu >= 0) { sched_get_rd; irq_work_queue_on }; r = [W, cpu]
tell_cpu_to_push_queue(r) ==
  IF r.cpu >= 0
  THEN irq_work_queue_on([r.W EXCEPT !.rd.refcount = @ + 1], r.cpu)
  ELSE r.W

\* tell_cpu_to_push with nothing running between its steps
tell_cpu_to_push(W) ==
  LET \* after atomic_inc(&rd->rto_loop_next); the first test is
      \* rto_start_trylock
      start(V) ==
        IF V.rd.rto_loop_start # 0 THEN V
        ELSE IF V.rd.rto_cpu < 0 THEN tell_cpu_to_push_queue(rto_next_cpu(V))
        ELSE V
  IN start([W EXCEPT !.rd.rto_loop_next = @ + 1])

\* variant: the relay ends without sched_put_rd
rto_push_irq_work_func_queue_no_put(W, cpu) ==
  IF cpu < 0 THEN W
  ELSE irq_work_queue_on(W, cpu)

\* the end of rto_push_irq_work_func: if (cpu < 0) sched_put_rd(rd); else
\* irq_work_queue_on(&rd->rto_push_work, cpu)
rto_push_irq_work_func_queue(W, cpu) ==
  IF cpu < 0 THEN [W EXCEPT !.rd.refcount = @ - 1]
  ELSE irq_work_queue_on(W, cpu)

pull_rt_task(W, this_cpu) ==
  IF ~pull_scans(W, this_cpu) THEN W
  ELSE IF W.feat.RT_PUSH_IPI THEN tell_cpu_to_push(W)
  ELSE pull_rt_task_from(W, this_cpu, 0, FALSE)

\* ------------------------------------------------------- pick / tick / woken
queue_push_tasks(W, c) ==
  IF ~has_pushable_tasks(W, c) THEN W ELSE [W EXCEPT !.rq[c].push_cb = TRUE]

\* pick_next_task_rt after the pull; returns [W, p]
pick_next_task_rt_update(W, c, prev) ==
  LET \* from p = _pick_next_task_rt(rq) on
      picked(V, p) ==
        IF p = NULL THEN [W |-> BugOn(V, TRUE, "pick_no_entity"), p |-> NULL]
        ELSE [W |-> [update_rt_rq_load_avg(
                       queue_push_tasks(dequeue_pushable_task(V, c, p), c),
                       c, curr_is_rt(V, c))
                       EXCEPT !.task[p].victim_flag = 0],  \* clear_victim_flag
              p |-> p]
      \* _pick_next_task_rt: update_rt_load_avg(now, rt_se), rt_rq->curr = rt_se
      _pick_next_task_rt(V, p) ==
        IF p = NULL THEN V
        ELSE [update_rt_load_avg(V, c, p) EXCEPT !.rq[c].rt.curr = p]
      \* p = _pick_next_task_rt(rq), after put_prev_task
      entity(V) ==
        picked(_pick_next_task_rt(V, pick_next_rt_entity(V, c)),
               pick_next_rt_entity(V, c))
      \* from the rt_queued test on
      queued(V) ==
        IF V.rq[c].rt.rt_queued = 0 THEN [W |-> V, p |-> NULL]
        ELSE entity(put_prev_task(V, c, prev))
  IN queued(IF prev # IDLE /\ W.task[prev].class = "rt"
            THEN update_curr_rt(W, c) ELSE W)

\* returns [W, p]; p = NULL when the class has nothing to run
pick_next_task_rt(W, c, prev) ==
  pick_next_task_rt_update(
    IF need_pull_rt_task(W, c, prev) THEN pull_rt_task(W, c) ELSE W, c, prev)

\* variant: the expired task is put back at the head of its list
task_tick_rt_requeue_head(W, c, p) ==
  LET rr(V) ==
        IF V.task[p].policy # "RR" THEN V
        ELSE IF V.task[p].time_slice - 1 # 0
             THEN [V EXCEPT !.task[p].time_slice = @ - 1]
        ELSE IF Len(V.rq[c].rt.active.queue[prio_of(V, p)]) > 1
             THEN resched_curr(
                    requeue_task_rt(
                      [V EXCEPT !.task[p].time_slice = RR_TIMESLICE],
                      c, p, TRUE), c)
             ELSE [V EXCEPT !.task[p].time_slice = RR_TIMESLICE]
      load_avg(V) == update_rt_rq_load_avg(update_rt_load_avg(V, c, p), c, TRUE)
  IN rr(load_avg(update_curr_rt(W, c)))

task_tick_rt(W, c, p) ==
  LET \* the SCHED_RR part
      rr(V) ==
        IF V.task[p].policy # "RR" THEN V
        ELSE IF V.task[p].time_slice - 1 # 0
             THEN [V EXCEPT !.task[p].time_slice = @ - 1]
        ELSE IF Len(V.rq[c].rt.active.queue[prio_of(V, p)]) > 1
             THEN resched_curr(
                    requeue_task_rt(
                      [V EXCEPT !.task[p].time_slice = RR_TIMESLICE],
                      c, p, FALSE), c)
             ELSE [V EXCEPT !.task[p].time_slice = RR_TIMESLICE]
      \* update_rt_load_avg(now, rt_se);
      \* update_rt_rq_load_avg(now, cpu, &rq->rt, rq->curr != NULL)
      load_avg(V) == update_rt_rq_load_avg(update_rt_load_avg(V, c, p), c, TRUE)
  IN rr(load_avg(update_curr_rt(W, c)))

\* the tests of task_woken_rt in front of push_rt_tasks; sync is
\* p->rt.sync_flag as the waker left it
task_woken_rt_pushes(W, c, p, sync) ==
  LET curr == W.rq[c].curr IN
  /\ ~task_running(W, p)
  /\ ~W.rq[c].need_resched
  /\ nr_cpus_allowed(W, p) > 1
  /\ rt_task(W, curr)
  /\ (nr_cpus_allowed(W, curr) < 2 \/ prio_of(W, curr) <= prio_of(W, p))
  /\ sync /\ prio_of(W, curr) < prio_of(W, p)

task_woken_rt(W, c, p, sync, probe) ==
  IF task_woken_rt_pushes(W, c, p, sync) THEN push_rt_tasks(W, c, probe)
  ELSE W

\* ------------------------------------------------- scheduler core (core.c)
\* ttwu_do_activate and ttwu_do_wakeup up to the task_woken hook
ttwu_do_activate(W, p, cpu) ==
  LET \* the hook of the class when p and rq->curr share it, a reschedule
      \* when p's class is the higher one
      check_preempt_curr(V) ==
        IF curr_is_rt(V, cpu) THEN check_preempt_curr_rt(V, cpu, p)
        ELSE resched_curr(V, cpu)
      W1 == set_task_cpu(W, p, cpu)
      W2 == enqueue_task(W1, cpu, p, {"WAKEUP"})   \* activate_task
  IN check_preempt_curr([W2 EXCEPT !.task[p].on_rq = 1])

\* try_to_wake_up of a task that is off every run-queue, onto CPU cpu
try_to_wake_up(W, p, cpu, sync, probe) ==
  task_woken_rt(ttwu_do_activate(W, p, cpu), cpu, p, sync, probe)

\* balance_callback: run and clear the callbacks queued under rq->lock
balance_callback(W, c, probe) ==
  IF W.rq[c].push_cb
  THEN push_rt_tasks([W EXCEPT !.rq[c].push_cb = FALSE], c, probe)
  ELSE W

\* pick_next_task: r is what the rt class answered; when it has nothing the
\* idle class puts prev and picks the idle task
schedule_pick(r, c, prev) ==
  LET \* next becomes rq->curr, prev leaves the CPU
      context_switch(V, next) ==
        LET W3 == [V EXCEPT !.rq[c].need_resched = FALSE, !.rq[c].curr = next]
            W4 == IF prev # IDLE /\ prev # next
                  THEN [W3 EXCEPT !.task[prev].on_cpu = FALSE] ELSE W3
        IN IF next # IDLE THEN [W4 EXCEPT !.task[next].on_cpu = TRUE] ELSE W4
  IN context_switch(IF r.p = NULL THEN put_prev_task(r.W, c, prev) ELSE r.W,
                    IF r.p = NULL THEN IDLE ELSE r.p)

\* if (prev->state) deactivate_task(rq, prev, DEQUEUE_SLEEP)
schedule_deactivate(W, c, sleep) ==
  IF sleep /\ W.rq[c].curr # IDLE
  THEN [dequeue_task(W, c, W.rq[c].curr, {"SLEEP"})
          EXCEPT !.task[W.rq[c].curr].on_rq = 0]
  ELSE W

\* __schedule on CPU c; sleep = prev leaves the run-queue (prev->state set)
schedule(W, c, sleep, probe) ==
  balance_callback(
    schedule_pick(
      pick_next_task_rt(schedule_deactivate(W, c, sleep), c, W.rq[c].curr),
      c, W.rq[c].curr),
    c, probe)

\* do_set_cpus_allowed: the mask changes between a save-dequeue and a
\* restore-enqueue
do_set_cpus_allowed(W, p, new_mask) ==
  LET \* set_curr_task_rt
      set_curr(V, c, running) ==
        IF running
        THEN [dequeue_pushable_task(V, c, V.rq[c].curr)
                EXCEPT !.rq[c].rt.curr = V.rq[c].curr]
        ELSE V
      enqueue(V, c, queued, running) ==
        set_curr(
          IF queued
          THEN enqueue_task([V EXCEPT !.task[p].cpus_allowed = new_mask],
                            c, p, {"SAVE"})
          ELSE [V EXCEPT !.task[p].cpus_allowed = new_mask], c, running)
      put(V, c, queued, running) ==
        enqueue(IF running THEN put_prev_task(V, c, p) ELSE V,
                c, queued, running)
  IN put(IF task_on_rq_queued(W, p)
         THEN dequeue_task(W, W.task[p].cpu, p, {"SAVE"}) ELSE W,
         W.task[p].cpu,
         task_on_rq_queued(W, p), task_current(W, W.task[p].cpu, p))

\* ---------------------------------------------------------------- sysctl
\* variant: the per-run-queue quotas are set before the values are validated
sched_rt_handler_constraints_first(W, period, runtime) ==
  LET \* between two writes the sysctl values are the ones sched_rt_do_global
      \* copied into def_rt_bandwidth
      old_period == W.bw.rt_period
      old_runtime == W.bw.rt_runtime
      sched_rt_global_validate ==
        IF period <= 0 THEN -EINVAL
        ELSE IF runtime # RUNTIME_INF /\ runtime > period THEN -EINVAL
        ELSE 0
      sched_rt_global_constraints(V) ==
        [V EXCEPT !.rq =
           [c \in CPUS |-> [@[c] EXCEPT !.rt.rt_runtime = runtime]]]
      sched_rt_do_global(V) ==
        [V EXCEPT !.bw.rt_runtime = runtime, !.bw.rt_period = period]
      undo(V, ret) ==
        [W |-> V, ret |-> ret,
         sysctl_sched_rt_period |-> old_period,
         sysctl_sched_rt_runtime |-> old_runtime]
  IN IF sched_rt_global_validate # 0
     THEN undo(sched_rt_global_constraints(W), sched_rt_global_validate)
     ELSE [W |-> sched_rt_do_global(sched_rt_global_constraints(W)),
           ret |-> 0,
           sysctl_sched_rt_period |-> period,
           sysctl_sched_rt_runtime |-> runtime]

\* a write of (period, runtime) through the sysctl handler: proc_dointvec
\* stores the two values, the undo label puts the old ones back
sched_rt_handler(W, period, runtime) ==
  LET \* between two writes the sysctl values are the ones sched_rt_do_global
      \* copied into def_rt_bandwidth
      old_period == W.bw.rt_period
      old_runtime == W.bw.rt_runtime
      sched_rt_global_validate ==
        IF period <= 0 THEN -EINVAL
        ELSE IF runtime # RUNTIME_INF /\ runtime > period THEN -EINVAL
        ELSE 0
      sched_rt_global_constraints(V) ==
        [V EXCEPT !.rq =
           [c \in CPUS |-> [@[c] EXCEPT !.rt.rt_runtime = runtime]]]
      sched_rt_do_global(V) ==
        [V EXCEPT !.bw.rt_runtime = runtime, !.bw.rt_period = period]
      undo(V, ret) ==
        [W |-> V, ret |-> ret,
         sysctl_sched_rt_period |-> old_period,
         sysctl_sched_rt_runtime |-> old_runtime]
  IN IF sched_rt_global_validate # 0 THEN undo(W, sched_rt_global_validate)
     ELSE [W |-> sched_rt_do_global(sched_rt_global_constraints(W)),
           ret |-> 0,
           sysctl_sched_rt_period |-> period,
           sysctl_sched_rt_runtime |-> runtime]

\* -------------------------------------------------- class change (core.c)
\* the last line is queue_pull_task
switched_from_rt(W, c, p) ==
  LET \* detach_task_rt_rq(p)
      W1 == detach_rt_entity_load_avg(update_rt_load_avg(W, c, p), c, p)
  IN IF ~task_on_rq_queued(W1, p) \/ W1.rq[c].rt.rt_nr_running # 0 THEN W1
     ELSE [W1 EXCEPT !.rq[c].pull_cb = TRUE]

switched_to_rt(W, c, p) ==
  LET \* if (p->prio < rq->curr->prio) resched_curr(rq)
      resched(V) ==
        IF prio_of(V, p) < prio_of(V, V.rq[c].curr) /\ V.rq[c].online
        THEN resched_curr(V, c) ELSE V
  IN IF task_on_rq_queued(W, p) /\ W.rq[c].curr # p
     THEN resched(IF nr_cpus_allowed(W, p) > 1 /\ W.rq[c].rt.overloaded # 0
                  THEN queue_push_tasks(W, c) ELSE W)
     ELSE W

\* variant: a running task whose priority drops only queues the pull
prio_changed_rt_no_resched(W, c, p, oldprio) ==
  LET \* if (oldprio < p->prio) queue_pull_task(rq)
      pull(V) ==
        IF oldprio < prio_of(V, p) THEN [V EXCEPT !.rq[c].pull_cb = TRUE]
        ELSE V
      \* if (p->prio > rq->rt.highest_prio.curr) resched_curr(rq)
      waiting(V) ==
        IF prio_of(V, p) > V.rq[c].rt.highest_prio.curr
        THEN resched_curr(V, c) ELSE V
  IN IF ~task_on_rq_queued(W, p) THEN W
     ELSE IF W.rq[c].curr = p THEN pull(W)
     ELSE IF prio_of(W, p) < prio_of(W, W.rq[c].curr) THEN resched_curr(W, c)
     ELSE W

\* the priority of p has changed within the real-time class
prio_changed_rt(W, c, p, oldprio) ==
  LET \* if (oldprio < p->prio) queue_pull_task(rq)
      pull(V) ==
        IF oldprio < prio_of(V, p) THEN [V EXCEPT !.rq[c].pull_cb = TRUE]
        ELSE V
      \* if (p->prio > rq->rt.highest_prio.curr) resched_curr(rq)
      waiting(V) ==
        IF prio_of(V, p) > V.rq[c].rt.highest_prio.curr
        THEN resched_curr(V, c) ELSE V
  IN IF ~task_on_rq_queued(W, p) THEN W
     ELSE IF W.rq[c].curr = p THEN waiting(pull(W))
     ELSE IF prio_of(W, p) < prio_of(W, W.rq[c].curr) THEN resched_curr(W, c)
     ELSE W

\* __sched_setscheduler: dequeue and put a queued and running task, change
\* class and priority, enqueue (at the head when the priority drops) and set
\* it current again, then tell the class
sched_setscheduler(W, p, class, prio) ==
  LET c == W.task[p].cpu
      queued == task_on_rq_queued(W, p)
      running == task_current(W, c, p)
      oldprio == W.task[p].prio
      flags == IF oldprio < prio THEN {"SAVE", "MOVE", "HEAD"}
               ELSE {"SAVE", "MOVE"}
      \* the hook of the class left, then of the class joined; prio_changed
      \* when the class stays
      check_class_changed(V, q, prev_class) ==
        IF prev_class = "rt" /\ V.task[q].class # "rt"
        THEN switched_from_rt(V, c, q)
        ELSE IF prev_class # "rt" /\ V.task[q].class = "rt"
             THEN switched_to_rt(V, c, q)
        ELSE IF prev_class = "rt" /\ oldprio # V.task[q].prio
             THEN prio_changed_rt(V, c, q, oldprio)
        ELSE V
      \* __setscheduler between the dequeue and the enqueue
      set(V) == [V EXCEPT !.task[p].class = class, !.task[p].prio = prio]
      \* set_curr_task: set_curr_task_rt
      set_curr(V) ==
        IF running /\ V.task[p].class = "rt"
        THEN [dequeue_pushable_task(V, c, p) EXCEPT !.rq[c].rt.curr = p]
        ELSE V
      W1 == IF queued THEN dequeue_task(W, c, p, {"SAVE", "MOVE"}) ELSE W
      W2 == IF running THEN put_prev_task(W1, c, p) ELSE W1
      W3 == IF queued THEN enqueue_task(set(W2), c, p, flags) ELSE set(W2)
  IN check_class_changed(set_curr(W3), p, W.task[p].class)

\* ------------------------------------------- migration, one lock step at a time
\* The machine K = [W, lock, pc]: lock[c] is the CPU holding rq c's lock (-1:
\* free) and pc[e] is where CPU e stands in the operation it runs:
\*   op     "idle", "wake" (push_rt_tasks from task_woken_rt), "sched"
\*          (pull_rt_task from pick_next_task_rt), "callback" (a balance
\*          callback is due), "cb_push", "cb_pull"
\*   step   "probe": about to call find_lowest_rq; "dlb": in front of
\*          double_lock_balance; "dlb_first", "dlb_second": re-acquiring after
\*          the drop; "locked": both locks held
\*   rq     the run-queue operated on (rq of the push, this_rq of the pull)
\*   task   next_task of the push; other: lowest_rq or src_rq
\*          "unlock": in front of double_unlock_balance
\*   out    what the locked section did: "commit", "reval_fail",
\*          "unsuitable" (push), "pulled", "skipped" (pull)
NoOp ==
  [ op |-> "idle", step |-> "none", rq |-> 0, task |-> NULL, other |-> -1,
    tries |-> 0, resched |-> FALSE, dropped |-> FALSE, out |-> "none" ]

PushOps == {"wake", "cb_push"}
PullOps == {"sched", "cb_pull"}

\* the operation is over: unlock rq->lock
mig_end(K, e) == [K EXCEPT !.lock[K.pc[e].rq] = -1, !.pc[e] = NoOp]

\* push_rt_task from the retry label on
mig_push_retry(K, e, next_task) ==
  IF push_precheck(K.W, K.pc[e].rq, next_task) = "stop" THEN mig_end(K, e)
  ELSE IF push_precheck(K.W, K.pc[e].rq, next_task) = "resched"
       THEN mig_end([K EXCEPT !.W = resched_curr(K.W, K.pc[e].rq)], e)
  ELSE [K EXCEPT !.pc[e].step = "probe", !.pc[e].task = next_task,
                 !.pc[e].tries = 0]

\* one call of push_rt_task by push_rt_tasks, down to the first probe
mig_push_rt_task(K, e) ==
  IF K.W.rq[K.pc[e].rq].rt.overloaded = 0 THEN mig_end(K, e)
  ELSE mig_push_retry(
         [K EXCEPT !.W = pick_next_pushable_task_BUG(K.W, K.pc[e].rq)], e,
         pick_next_pushable_task(K.W, K.pc[e].rq))

\* find_lock_lowest_rq returned NULL: pick again, stop or retry
mig_push_no_lowest(K, e) ==
  IF pick_next_pushable_task(K.W, K.pc[e].rq) \in {K.pc[e].task, NULL}
  THEN mig_end([K EXCEPT !.W = pick_next_pushable_task_BUG(K.W, K.pc[e].rq)],
               e)
  ELSE mig_push_retry(
         [K EXCEPT !.W = pick_next_pushable_task_BUG(K.W, K.pc[e].rq)], e,
         pick_next_pushable_task(K.W, K.pc[e].rq))

\* double_lock_balance(this_rq, busiest) gives up this_rq->lock: always when
\* the kernel is preemptible, otherwise when the trylock of busiest fails and
\* busiest is the lower of the two
double_lock_balance_unlocks(K, this, busiest) ==
  K.W.feat.PREEMPT \/ (K.lock[busiest] # -1 /\ busiest < this)

\* the handler is over with rq c locked: unlock, and run the balance
\* callbacks if some are queued
mig_unlock_callback(K, e, c) ==
  IF K.W.rq[c].push_cb \/ K.W.rq[c].pull_cb
  THEN [K EXCEPT !.lock[c] = -1,
                 !.pc[e] = [NoOp EXCEPT !.op = "callback", !.rq = c]]
  ELSE [K EXCEPT !.lock[c] = -1, !.pc[e] = NoOp]

\* the rest of __schedule once pull_rt_task is back
mig_schedule_pick(K, e) ==
  mig_unlock_callback(
    [K EXCEPT !.W = schedule_pick(
                      pick_next_task_rt_update(K.W, K.pc[e].rq,
                                               K.W.rq[K.pc[e].rq].curr),
                      K.pc[e].rq, K.W.rq[K.pc[e].rq].curr)],
    e, K.pc[e].rq)

\* pull_rt_task has returned to its caller
mig_pull_return(K, e) ==
  IF K.pc[e].op = "sched" THEN mig_schedule_pick(K, e)
  ELSE IF K.W.rq[K.pc[e].rq].push_cb
       THEN mig_push_rt_task(
              [K EXCEPT !.W.rq[K.pc[e].rq].push_cb = FALSE,
                        !.pc[e].op = "cb_push"], e)
  ELSE mig_end(K, e)

RECURSIVE mig_pull_rt_task_from(_, _, _)
\* the for_each_cpu loop of pull_rt_task from cpu on, down to the next
\* double_lock_balance
mig_pull_rt_task_from(K, e, cpu) ==
  IF cpu >= NCPU
  THEN mig_pull_return(
         IF K.pc[e].resched
         THEN [K EXCEPT !.W = resched_curr(K.W, K.pc[e].rq)] ELSE K, e)
  ELSE IF ~pull_considers(K.W, K.pc[e].rq, cpu)
       THEN mig_pull_rt_task_from(K, e, cpu + 1)
  ELSE [K EXCEPT !.pc[e].step = "dlb", !.pc[e].other = cpu,
                 !.pc[e].dropped = FALSE]

mig_pull_rt_task(K, e) ==
  IF ~pull_scans(K.W, K.pc[e].rq) THEN mig_pull_return(K, e)
  ELSE IF K.W.feat.RT_PUSH_IPI
       THEN mig_pull_return([K EXCEPT !.W = tell_cpu_to_push(K.W)], e)
  ELSE mig_pull_rt_task_from(K, e, 0)

\* both locks held: the locked section of the push or of the pull
mig_locked(K, e) ==
  LET \* find_lock_lowest_rq after double_lock_balance, and the commit of
      \* push_rt_task, up to double_unlock_balance
      push_locked ==
        IF K.pc[e].dropped /\ revalidate_fails(K.W, K.pc[e].rq, K.pc[e].task,
                                               K.pc[e].other)
        THEN [K EXCEPT !.pc[e].step = "unlock", !.pc[e].out = "reval_fail"]
        ELSE IF still_suitable(K.W, K.pc[e].task, K.pc[e].other)
        THEN [K EXCEPT !.W = push_commit(K.W, K.pc[e].rq, K.pc[e].task,
                                         K.pc[e].other),
                       !.pc[e].step = "unlock", !.pc[e].out = "commit"]
        ELSE [K EXCEPT !.pc[e].step = "unlock", !.pc[e].out = "unsuitable"]
      \* the section of pull_rt_task between double_lock_balance and
      \* double_unlock_balance
      pull_locked_section ==
        [K EXCEPT !.W = pull_locked(K.W, K.pc[e].rq, K.pc[e].other),
                  !.pc[e].resched =
                     @ \/ pull_candidate(K.W, K.pc[e].rq, K.pc[e].other) # NULL,
                  !.pc[e].step = "unlock",
                  !.pc[e].out =
                     IF pull_candidate(K.W, K.pc[e].rq, K.pc[e].other) # NULL
                     THEN "pulled" ELSE "skipped"]
  IN IF K.pc[e].op \in PushOps THEN push_locked ELSE pull_locked_section

\* variant: the loop of find_lock_lowest_rq does not count its turns
mig_unlocked_unbounded(K, e, other, out) ==
  LET \* the target is no longer suitable: next turn of the loop of
      \* find_lock_lowest_rq
      unsuitable(J) ==
        [J EXCEPT !.pc[e].step = "probe"]
  IN IF K.pc[e].op \in PullOps THEN mig_pull_rt_task_from(K, e, other + 1)
     ELSE IF out = "commit" THEN mig_push_rt_task(K, e)
     ELSE IF out = "reval_fail" THEN mig_push_no_lowest(K, e)
     ELSE unsuitable([K EXCEPT !.pc[e].tries = @ + 1])

\* after double_unlock_balance: on with the push, or with the loop of the pull
mig_unlocked(K, e, other, out) ==
  LET \* the target is no longer suitable: next turn of the loop of
      \* find_lock_lowest_rq
      unsuitable(J) ==
        IF J.pc[e].tries >= RT_MAX_TRIES THEN mig_push_no_lowest(J, e)
        ELSE [J EXCEPT !.pc[e].step = "probe"]
  IN IF K.pc[e].op \in PullOps THEN mig_pull_rt_task_from(K, e, other + 1)
     ELSE IF out = "commit" THEN mig_push_rt_task(K, e)
     ELSE IF out = "reval_fail" THEN mig_push_no_lowest(K, e)
     ELSE unsuitable([K EXCEPT !.pc[e].tries = @ + 1])

\* variant: the lock of the other run-queue is kept
mig_double_unlock_balance_leaks(K, e) ==
  mig_unlocked([K EXCEPT !.pc[e].out = "none"],
               e, K.pc[e].other, K.pc[e].out)

\* double_unlock_balance(this_rq, busiest)
mig_double_unlock_balance(K, e) ==
  mig_unlocked([K EXCEPT !.lock[K.pc[e].other] = -1, !.pc[e].out = "none"],
               e, K.pc[e].other, K.pc[e].out)

\* ------------------------------------------------------------------ state
VARIABLES rq, task, rd, bw, feat, bug, lend, over, trace, lock, pc

vars == <<rq, task, rd, bw, feat, bug, lend, over, trace, lock, pc>>

\* the kernel state an operation starts from: its clock has not advanced and
\* nothing has been lent or overshot yet
World ==
  [ rq |-> rq, task |-> task, rd |-> rd, bw |-> bw, feat |-> feat,
    bug |-> bug, lend |-> {}, over |-> {}, trace |-> {},
    delta_exec |-> [c \in DOMAIN rq |-> 0] ]

Clocked(c, delta) == [World EXCEPT !.delta_exec[c] = delta]

SetWorld(W) ==
  /\ rq' = W.rq /\ task' = W.task /\ rd' = W.rd /\ bw' = W.bw
  /\ feat' = W.feat /\ bug' = W.bug /\ lend' = W.lend /\ over' = W.over
  /\ trace' = W.trace

\* an operation that runs from lock to unlock with nothing in between
Set(W) == SetWorld(W) /\ UNCHANGED <<lock, pc>>

\* the answers find_lowest_rq can give while rq c pushes, for the tasks in
\* Q, the ones that can be on c's pushable list (an answer of c itself is
\* treated by the caller like -1)
Probes(W, c, Q) ==
  {f \in [TASKS -> DOMAIN W.rq \cup {-1}] :
     \A t \in TASKS :
        IF t \in Q THEN f[t] \in find_lowest_rq_results(W, t) \ {c}
        ELSE f[t] = -1}

QueuedOn(c) == {t \in TASKS : task[t].cpu = c /\ task[t].on_rq = 1}

\* the time CPU c can have run its current task since exec_start
Deltas(c) ==
  IF curr_is_rt(World, c)
  THEN {d \in 0 .. MaxDelta : rq[c].rt.rt_time + d <= MaxTime}
  ELSE {0}

InitWith(cpus, features, runtime) ==
  /\ rq = [c \in cpus |-> InitRq(runtime)]
  /\ task = [t \in TASKS |-> InitTask(t)]
  /\ rd = InitRd
  /\ bw = InitBw(runtime)
  /\ feat \in features
  /\ bug = {}
  /\ lend = {}
  /\ over = {}
  /\ trace = {}
  /\ lock = [c \in cpus |-> -1]
  /\ pc = [e \in cpus |-> NoOp]

\* run-queue store and migration: booted with sched_rt_runtime_us = -1 (no
\* throttling), direct pull
Init ==
  InitWith(CPUS, {[RT_RUNTIME_SHARE |-> FALSE, RT_PUSH_IPI |-> FALSE,
             PREEMPT |-> FALSE]}, RUNTIME_INF)

\* bandwidth accounting: with and without runtime sharing
InitBandwidth ==
  InitWith(CPUS, {[RT_RUNTIME_SHARE |-> b, RT_PUSH_IPI |-> FALSE,
             PREEMPT |-> FALSE] : b \in BOOLEAN}, GlobalRuntime)

\* --------------------------------------------------------------- actions
WakeUp(p, cpu, sync) ==
  /\ task[p].on_rq = 0 /\ ~task[p].on_cpu
  /\ cpu \in task[p].cpus_allowed /\ rq[cpu].online
  /\ \E probe \in Probes(World, cpu, QueuedOn(cpu) \cup {p}) :
        Set(try_to_wake_up(World, p, cpu, sync, probe))

Schedule(c, sleep) ==
  /\ rq[c].need_resched \/ (sleep /\ rq[c].curr # IDLE)
  /\ \E delta \in Deltas(c), probe \in Probes(World, c, QueuedOn(c)) :
        Set(schedule(Clocked(c, delta), c, sleep, probe))

Tick(c) ==
  /\ curr_is_rt(World, c)
  /\ \E delta \in Deltas(c) \ {0} :
        Set(task_tick_rt(Clocked(c, delta), c, rq[c].curr))

PeriodTimer ==
  /\ bw.rt_period_active = 1
  /\ \E overrun \in 1 .. MaxOverrun :
        Set(sched_rt_period_timer(World, overrun))

\* sys_sched_yield: yield_task_rt, then schedule()
Yield(c) ==
  LET yield_task_rt(V) == requeue_task_rt(V, c, V.rq[c].curr, FALSE) IN
  /\ curr_is_rt(World, c)
  /\ \E delta \in Deltas(c), probe \in Probes(World, c, QueuedOn(c)) :
        Set(schedule(yield_task_rt(Clocked(c, delta)), c, FALSE, probe))

SetAffinity(p, new_mask) ==
  /\ new_mask # task[p].cpus_allowed
  /\ task[p].cpu \in new_mask
  /\ Set(do_set_cpus_allowed(World, p, new_mask))

Sysctl(runtime) ==
  /\ runtime # bw.rt_runtime
  /\ Set(sched_rt_handler(World, bw.rt_period, runtime).W)

Next ==
  \/ \E p \in TASKS, cpu \in CPUS, sync \in BOOLEAN : WakeUp(p, cpu, sync)
  \/ \E c \in CPUS, sleep \in BOOLEAN : Schedule(c, sleep)
  \/ \E c \in CPUS : Tick(c)
  \/ \E c \in CPUS : Yield(c)
  \/ \E p \in TASKS, m \in {CPUS, {0}, {1}} : SetAffinity(p, m)

Spec == Init /\ [][Next]_vars

\* the bandwidth state machine, driven by two tasks and the sysctl
NextBandwidth ==
  \/ \E p \in {"t1", "t2"}, cpu \in CPUS : WakeUp(p, cpu, FALSE)
  \/ \E c \in CPUS, sleep \in BOOLEAN : Schedule(c, sleep)
  \/ \E c \in CPUS : Tick(c)
  \/ PeriodTimer
  \/ \E r \in {0, GlobalRuntime, RUNTIME_INF} : Sysctl(r)

SpecBandwidth == InitBandwidth /\ [][NextBandwidth]_vars

\* ---------------------------------------------- migration under interleaving
Machine == [W |-> World, lock |-> lock, pc |-> pc]

SetMachine(K) == SetWorld(K.W) /\ lock' = K.lock /\ pc' = K.pc

\* CPU e takes the lock of rq c and starts operation op on it
Begin(e, op, c) ==
  [Machine EXCEPT !.lock[c] = e, !.pc[e] = [NoOp EXCEPT !.op = op, !.rq = c]]

InitMig ==
  InitWith(CPUS, {[RT_RUNTIME_SHARE |-> FALSE, RT_PUSH_IPI |-> FALSE,
             PREEMPT |-> b] : b \in BOOLEAN}, RUNTIME_INF)

\* CPU e wakes p up onto rq cpu; the wake-up ends in task_woken_rt
MigWakeUp(e, p, cpu, sync) ==
  LET task_woken(K) ==
        IF task_woken_rt_pushes(K.W, cpu, p, sync) THEN mig_push_rt_task(K, e)
        ELSE mig_end(K, e)
  IN /\ pc[e].op = "idle" /\ lock[cpu] = -1
     /\ task[p].on_rq = 0 /\ ~task[p].on_cpu
     /\ cpu \in task[p].cpus_allowed /\ rq[cpu].online
     /\ SetMachine(task_woken(
          [Begin(e, "wake", cpu)
             EXCEPT !.W = ttwu_do_activate(World, p, cpu)]))

\* __schedule on CPU c: the deactivation of prev, then the pick
MigSchedule(c, sleep) ==
  LET pick(K) ==
        IF need_pull_rt_task(K.W, c, K.W.rq[c].curr)
        THEN mig_pull_rt_task(K, c)
        ELSE mig_schedule_pick(K, c)
  IN /\ pc[c].op = "idle" /\ lock[c] = -1
     /\ rq[c].need_resched \/ (sleep /\ rq[c].curr # IDLE)
     /\ SetMachine(pick(
          [Begin(c, "sched", c)
             EXCEPT !.W = schedule_deactivate(World, c, sleep)]))

\* __balance_callback: rq->lock is taken and the queued callbacks run
MigBalanceCallback(e) ==
  LET callbacks(K) ==
        IF K.W.rq[K.pc[e].rq].pull_cb
        THEN mig_pull_rt_task(
               [K EXCEPT !.W.rq[K.pc[e].rq].pull_cb = FALSE,
                         !.pc[e].op = "cb_pull"], e)
        ELSE IF K.W.rq[K.pc[e].rq].push_cb
        THEN mig_push_rt_task(
               [K EXCEPT !.W.rq[K.pc[e].rq].push_cb = FALSE,
                         !.pc[e].op = "cb_push"], e)
        ELSE mig_end(K, e)
  IN /\ pc[e].op = "callback" /\ lock[pc[e].rq] = -1
     /\ SetMachine(callbacks([Machine EXCEPT !.lock[pc[e].rq] = e]))

\* one turn of the loop of find_lock_lowest_rq down to double_lock_balance;
\* cpu is the answer of find_lowest_rq
MigFindLowestRq(e, cpu) ==
  /\ pc[e].step = "probe"
  /\ cpu \in find_lowest_rq_results(World, pc[e].task)
  /\ SetMachine(
       IF ~probe_accepts(World, pc[e].rq, pc[e].task, cpu)
       THEN mig_push_no_lowest(Machine, e)
       ELSE [Machine EXCEPT !.pc[e].step = "dlb", !.pc[e].other = cpu,
                            !.pc[e].dropped = FALSE])

\* the first step of double_lock_balance: drop this_rq->lock, or take
\* busiest->lock (at once, or after spinning for it)
MigDoubleLockBalance(e) ==
  /\ pc[e].step = "dlb"
  /\ double_lock_balance_unlocks(Machine, pc[e].rq, pc[e].other)
       \/ lock[pc[e].other] = -1
  /\ SetMachine(
       IF double_lock_balance_unlocks(Machine, pc[e].rq, pc[e].other)
       THEN [Machine EXCEPT !.lock[pc[e].rq] = -1, !.pc[e].step = "dlb_first"]
       ELSE [Machine EXCEPT !.lock[pc[e].other] = e, !.pc[e].step = "locked"])

\* double_rq_lock: the lower run-queue first
MigDoubleRqLockFirst(e) ==
  /\ pc[e].step = "dlb_first"
  /\ lock[Min(pc[e].rq, pc[e].other)] = -1
  /\ SetMachine([Machine EXCEPT !.lock[Min(pc[e].rq, pc[e].other)] = e,
                                !.pc[e].step = "dlb_second"])

MigDoubleRqLockSecond(e) ==
  /\ pc[e].step = "dlb_second"
  /\ lock[Max(pc[e].rq, pc[e].other)] = -1
  /\ SetMachine([Machine EXCEPT !.lock[Max(pc[e].rq, pc[e].other)] = e,
                                !.pc[e].step = "locked",
                                !.pc[e].dropped = TRUE])

MigLocked(e) ==
  /\ pc[e].step = "locked"
  /\ SetMachine(mig_locked(Machine, e))

MigDoubleUnlockBalance(e) ==
  /\ pc[e].step = "unlock"
  /\ SetMachine(mig_double_unlock_balance(Machine, e))

MigSetAffinity(e, p, new_mask) ==
  /\ pc[e].op = "idle" /\ lock[task[p].cpu] = -1
  /\ new_mask # task[p].cpus_allowed
  /\ task[p].cpu \in new_mask
  /\ Set(do_set_cpus_allowed(World, p, new_mask))

\* sched_setscheduler by CPU e on a queued task that is not running: out of
\* the real-time class, or back into it
MigSetScheduler(e, p) ==
  /\ pc[e].op = "idle" /\ lock[task[p].cpu] = -1
  /\ task[p].on_rq = 1 /\ rq[task[p].cpu].curr # p
  /\ SetMachine(mig_unlock_callback(
       [Machine EXCEPT !.W =
          IF task[p].class = "rt"
          THEN sched_setscheduler(World, p, "fair", MAX_RT_PRIO + 20)
          ELSE sched_setscheduler(World, p, "rt", InitPrio(p))],
       e, task[p].cpu))

NextMig ==
  \/ \E e \in CPUS, p \in TASKS, cpu \in CPUS, sync \in BOOLEAN :
        MigWakeUp(e, p, cpu, sync)
  \/ \E c \in CPUS, sleep \in BOOLEAN : MigSchedule(c, sleep)
  \/ \E e \in CPUS : MigBalanceCallback(e)
  \/ \E e \in CPUS, cpu \in CPUS \cup {-1} : MigFindLowestRq(e, cpu)
  \/ \E e \in CPUS : MigDoubleLockBalance(e)
  \/ \E e \in CPUS : MigDoubleRqLockFirst(e)
  \/ \E e \in CPUS : MigDoubleRqLockSecond(e)
  \/ \E e \in CPUS : MigLocked(e)
  \/ \E e \in CPUS : MigDoubleUnlockBalance(e)
  \/ \E e \in CPUS, m \in {CPUS, {0}} : MigSetAffinity(e, "t3", m)
  \/ \E e \in CPUS : MigSetScheduler(e, "t3")

SpecMig == InitMig /\ [][NextMig]_vars

\* ------------------------------------------------- the IPI relay, stepwise
\* A root domain of NRelay CPUs with RT_PUSH_IPI on.  The relay is followed
\* from one atomic access to the next; the run-queues stay as booted, and a
\* run-queue's becoming overloaded or ceasing to be (update_rt_migration,
\* under that run-queue's lock) is a step of its own.
InitRelay ==
  InitWith(RCPUS, {[RT_RUNTIME_SHARE |-> FALSE, RT_PUSH_IPI |-> TRUE,
                    PREEMPT |-> FALSE]}, RUNTIME_INF)

SetRelay(new_rd, e, op, step, cpu) ==
  /\ rd' = new_rd
  /\ pc' = [pc EXCEPT ![e] = [NoOp EXCEPT !.op = op, !.step = step,
                                          !.rq = e, !.other = cpu]]
  /\ UNCHANGED <<rq, task, bw, feat, bug, lend, over, trace, lock>>

\* rq c gets overloaded; not while CPU c holds rq c's lock in pull_rt_task
RelaySetOverload(c) ==
  /\ pc[c].op # "tell"
  /\ c \notin rd.rto_mask
  /\ Set(rt_set_overload(World, c))

RelayClearOverload(c) ==
  /\ pc[c].op # "tell"
  /\ c \in rd.rto_mask
  /\ Set(rt_clear_overload(World, c))

\* pull_rt_task on CPU e up to and including atomic_inc(&rd->rto_loop_next)
RelayTell(e) ==
  /\ pc[e].op = "idle"
  /\ feat.RT_PUSH_IPI
  /\ pull_scans(World, e)
  /\ rd.rto_loop_next < MaxLoop
  /\ SetRelay([rd EXCEPT !.rto_loop_next = @ + 1], e, "tell", "trylock", -1)

\* variant: rto_loop_start is stored without being tested
RelayTrylock_unguarded(e) ==
  /\ pc[e].step = "trylock"
  /\ SetRelay([rd EXCEPT !.rto_loop_start = 1], e, "tell", "lock", -1)

\* if (!rto_start_trylock(&rd->rto_loop_start)) return;
RelayTrylock(e) ==
  /\ pc[e].step = "trylock"
  /\ IF World.rd.rto_loop_start = 0
     THEN SetRelay([rd EXCEPT !.rto_loop_start = 1], e, "tell", "lock", -1)
     ELSE SetRelay(rd, e, "idle", "none", -1)

\* raw_spin_lock(&rd->rto_lock); tell_cpu_to_push then reads rto_cpu
RelayLock(e) ==
  /\ pc[e].step = "lock"
  /\ rd.rto_lock = -1
  /\ SetRelay([rd EXCEPT !.rto_lock = e], e, pc[e].op,
              IF pc[e].op = "tell" /\ ~(rd.rto_cpu < 0) THEN "unlock"
              ELSE "scan", -1)

\* rto_next_cpu: cpumask_next and the store to rto_cpu
RelayScan(e) ==
  /\ pc[e].step = "scan"
  /\ SetRelay(rto_next_cpu_scan(World).W.rd, e, pc[e].op,
              IF rto_next_cpu_scan(World).cpu >= 0 THEN "unlock" ELSE "check",
              rto_next_cpu_scan(World).cpu)

\* rto_next_cpu: the read of rto_loop_next and the comparison with rto_loop
RelayCheck(e) ==
  /\ pc[e].step = "check"
  /\ SetRelay(rto_next_cpu_check(World).W.rd, e, pc[e].op,
              IF rto_next_cpu_check(World).done THEN "unlock" ELSE "scan", -1)

\* raw_spin_unlock(&rd->rto_lock)
RelayUnlock(e) ==
  /\ pc[e].step = "unlock"
  /\ SetRelay([rd EXCEPT !.rto_lock = -1], e, pc[e].op,
              IF pc[e].op = "tell" THEN "release" ELSE "queue", pc[e].other)

\* rto_start_unlock(&rd->rto_loop_start)
RelayRelease(e) ==
  /\ pc[e].step = "release"
  /\ SetRelay([rd EXCEPT !.rto_loop_start = 0], e, "tell", "queue",
              pc[e].other)

\* the end of tell_cpu_to_push and of rto_push_irq_work_func
RelayQueue(e) ==
  /\ pc[e].step = "queue"
  /\ SetRelay(IF pc[e].op = "tell"
              THEN tell_cpu_to_push_queue([W |-> World, cpu |-> pc[e].other]).rd
              ELSE rto_push_irq_work_func_queue(World, pc[e].other).rd,
              e, "idle", "none", -1)

\* the irq work queued on CPU c is delivered; c is not inside pull_rt_task,
\* which runs with interrupts off
RelayIrq(c) ==
  /\ pc[c].op = "idle"
  /\ rd.rto_push_work = c
  /\ SetRelay([rd EXCEPT !.rto_push_work = -1], c, "irq", "push", -1)

\* rto_push_irq_work_func: if (has_pushable_tasks(rq)) push_rt_tasks(rq)
RelayPush(c) ==
  /\ pc[c].step = "push"
  /\ \E probe \in Probes(World, c, QueuedOn(c)) :
       SetWorld(IF has_pushable_tasks(World, c)
                THEN push_rt_tasks(World, c, probe) ELSE World)
  /\ pc' = [pc EXCEPT ![c].step = "lock"]
  /\ UNCHANGED lock

\* the step CPU e takes next inside tell_cpu_to_push or the irq work
RelayStep(e) ==
  \/ RelayTrylock(e)
  \/ RelayLock(e)
  \/ RelayScan(e)
  \/ RelayCheck(e)
  \/ RelayUnlock(e)
  \/ RelayRelease(e)
  \/ RelayQueue(e)
  \/ RelayIrq(e)
  \/ RelayPush(e)

NextRelay ==
  \/ \E c \in RCPUS : RelaySetOverload(c)
  \/ \E c \in RCPUS : RelayClearOverload(c)
  \/ \E e \in RCPUS : RelayTell(e)
  \/ \E e \in RCPUS : RelayStep(e)

SpecRelay == InitRelay /\ [][NextRelay]_vars

\* every CPU goes on with the function it is in, rto_lock is a fair lock and
\* queued irq work is delivered
SpecRelayFair == SpecRelay /\ \A e \in RCPUS : SF_vars(RelayStep(e))

\* ================================================================ claims
\* No BUG_ON / WARN_ON of the modelled code fires.
NoAssertionFires == bug = {}

\* C1: on every run-queue, for every priority P below MAX_RT_PRIO, bit P of
\* the bitmap is set exactly when the list of priority P is non-empty, and the
\* delimiter bit MAX_RT_PRIO is always set, whatever enqueue, dequeue and
\* requeue operations have run.
C1_BitmapMatchesQueues ==
  \A c \in CPUS :
    /\ \A P \in 0 .. (MAX_RT_PRIO - 1) :
          (P \in rq[c].rt.active.bitmap) <=> (rq[c].rt.active.queue[P] # << >>)
    /\ MAX_RT_PRIO \in rq[c].rt.active.bitmap

\* a run-queue holding two lists, one of them with two entities, while
\* the other run-queue holds none
C1_Witness ==
  \E c \in CPUS :
    /\ {1, 2} \subseteq rq[c].rt.active.bitmap
    /\ Len(rq[c].rt.active.queue[1]) = 2
    /\ \E d \in CPUS \ {c} : rq[d].rt.active.bitmap = {MAX_RT_PRIO}

\* C2: on every run-queue, overloaded is 1 exactly when rt_nr_migratory >= 1
\* and rt_nr_total > 1.
C2_OverloadedIff ==
  \A c \in CPUS :
    (rq[c].rt.overloaded = 1) <=>
       (rq[c].rt.rt_nr_migratory >= 1 /\ rq[c].rt.rt_nr_total > 1)

\* one run-queue overloaded while the other holds two tasks, none of them
\* migratory, and is not
C2_Witness ==
  \E c \in CPUS :
    /\ rq[c].rt.overloaded = 1 /\ rq[c].rt.rt_nr_total = 2
    /\ c \in rd.rto_mask
C2_WitnessPinned ==
  \E c \in CPUS :
    /\ rq[c].rt.overloaded = 0 /\ rq[c].rt.rt_nr_total >= 2
    /\ rq[c].rt.rt_nr_migratory = 0

\* C3 (as the code has it): when update_curr_rt charges a run-queue beyond a
\* finite quota that is below the period, and the bandwidth pool's own quota
\* is not zero, the run-queue is throttled and taken off the ready set
\* (rt_queued = 0); a throttled run-queue is never on the ready set, and a
\* schedule that leaves it throttled switches to no real-time task.
C3_StateOK ==
  \A c \in CPUS :
    /\ (c \in over /\ bw.rt_runtime # 0) =>
          (rq[c].rt.rt_throttled = 1 /\ rq[c].rt.rt_queued = 0)
    /\ rq[c].rt.rt_throttled # 0 => rq[c].rt.rt_queued = 0
C3_PickOK ==
  \A c \in CPUS :
    (rq'[c].rt.rt_throttled # 0 /\ rq'[c].curr # rq[c].curr) =>
       rq'[c].curr = IDLE
C3_Throttle == []C3_StateOK /\ [][C3_PickOK]_vars

\* a run-queue charged beyond its quota: throttled, off the ready set, its
\* tasks still attached
C3_Witness ==
  \E c \in CPUS :
    /\ c \in over /\ bw.rt_runtime # 0
    /\ rq[c].rt.rt_throttled = 1 /\ rq[c].rt.rt_queued = 0
    /\ rq[c].rt.rt_nr_running > 0

\* C3 as stated: every overshoot of a finite quota below the period throttles.
C3_AsStated ==
  \A c \in CPUS :
    c \in over => (rq[c].rt.rt_throttled = 1 /\ rq[c].rt.rt_queued = 0)

\* C4 as stated: rt_time never exceeds rt_runtime.
C4_AsStated ==
  \A c \in CPUS : rq[c].rt.rt_time <= rq[c].rt.rt_runtime

\* C4 (as the code has it): accounting detects an overshoot, it does not
\* prevent one: rt_throttled becomes set only in a step that leaves
\* rt_time > rt_runtime, and is cleared only in a step that leaves
\* rt_time < rt_runtime.
C4_Step ==
  \A c \in CPUS :
    /\ (rq[c].rt.rt_throttled = 0 /\ rq'[c].rt.rt_throttled # 0) =>
          rq'[c].rt.rt_time > rq'[c].rt.rt_runtime
    /\ (rq[c].rt.rt_throttled # 0 /\ rq'[c].rt.rt_throttled = 0) =>
          rq'[c].rt.rt_time < rq'[c].rt.rt_runtime
C4_ThrottleOnOvershoot == [][C4_Step]_vars

\* a throttled run-queue whose rt_time is above its rt_runtime
C4_Witness ==
  \E c \in CPUS :
    rq[c].rt.rt_throttled = 1 /\ rq[c].rt.rt_time > rq[c].rt.rt_runtime

\* C5: every loan made by do_balance_runtime comes from a run-queue whose
\* rt_runtime was above its rt_time, is at most 1/weight of that spare time,
\* and leaves the lender with rt_runtime >= rt_time.
C5_LoansBounded ==
  \A l \in lend :
    /\ l.rt_runtime > l.rt_time
    /\ l.diff * l.weight <= l.rt_runtime - l.rt_time
    /\ l.rt_runtime - l.diff >= l.rt_time

\* a loan of a positive amount has just been made
C5_Witness == \E l \in lend : l.diff > 0

\* ------------------------------------------------------- migration claims
\* a queued task changes run-queue in this step
Moved(p) == task[p].on_rq = 1 /\ task'[p].cpu # task[p].cpu

\* CPU e runs the locked section of a push (of a pull) in this step
PushCommits(e) ==
  pc[e].op \in PushOps /\ pc[e].step = "locked" /\ pc'[e].step # "locked"
PullCommits(e) ==
  pc[e].op \in PullOps /\ pc[e].step = "locked" /\ pc'[e].step # "locked"

\* C6: a push moves its task only in a step taken with both run-queue locks
\* held and the target's highest_prio.curr numerically above the task's
\* priority; when the target, accepted by the unlocked probe, is found at lock
\* time to hold a task of equal or higher priority, nothing is moved, and the
\* attempt goes on to the unlock and from there to another probe or to the end
\* of the push, and no assertion fires.
C6_Step ==
  \A e \in CPUS :
    /\ PushCommits(e) =>
         /\ (\E p \in TASKS : Moved(p)) =>
               /\ lock[pc[e].rq] = e /\ lock[pc[e].other] = e
               /\ rq[pc[e].other].rt.highest_prio.curr > task[pc[e].task].prio
               /\ \A p \in TASKS : Moved(p) => p = pc[e].task
               /\ task'[pc[e].task].cpu = pc[e].other
         /\ rq[pc[e].other].rt.highest_prio.curr <= task[pc[e].task].prio =>
               /\ \A p \in TASKS : task'[p].cpu = task[p].cpu
               /\ pc'[e].step = "unlock" /\ pc'[e].out # "commit"
         /\ bug' = {}
    /\ (pc[e].op \in PushOps /\ pc[e].step = "unlock"
          /\ pc[e].out = "unsuitable" /\ pc'[e] # pc[e]) =>
         /\ \A p \in TASKS : task'[p] = task[p]
         /\ lock'[pc[e].other] = -1
         /\ pc'[e].step \in {"probe", "none"}
         /\ bug' = {}
C6_PushTargetRechecked == [][C6_Step]_vars

\* a push holds both locks and has found that its target, suitable at the
\* probe, now runs a task of equal or higher priority
C6_Witness ==
  \E e \in CPUS :
    /\ pc[e].op \in PushOps /\ pc[e].step = "unlock"
    /\ pc[e].out = "unsuitable"
    /\ lock[pc[e].rq] = e /\ lock[pc[e].other] = e
    /\ rq[pc[e].other].rt.highest_prio.curr <= task[pc[e].task].prio
    /\ task[pc[e].task].cpu = pc[e].rq

\* what the push must find true of its task t, on rq c, for target l
C7_Eligible(t, c, l) ==
  /\ task[t].cpu = c
  /\ task[t].on_rq = 1
  /\ ~task[t].on_cpu
  /\ task[t].prio < MAX_RT_PRIO
  /\ l \in task[t].cpus_allowed

\* the number of times p is on list P of run-queue c
Listed(p, c, P) ==
  Cardinality({i \in 1 .. Len(rq[c].rt.active.queue[P]) :
                  rq[c].rt.active.queue[P][i] = p})

\* every queued real-time task is on one list only, once, that of its
\* priority on its own run-queue; a task on a CPU is that run-queue's curr
C7_Placed ==
  \A p \in TASKS :
    /\ \A c \in CPUS, P \in 0 .. (MAX_RT_PRIO - 1) :
          Listed(p, c, P) =
             IF /\ task[p].on_rq = 1 /\ task[p].class = "rt"
                /\ c = task[p].cpu /\ P = task[p].prio
             THEN 1 ELSE 0
    /\ task[p].on_cpu => rq[task[p].cpu].curr = p

C7_Step ==
  \A e \in CPUS :
    PushCommits(e) =>
      /\ \A p \in TASKS :
            Moved(p) =>
               /\ p = pc[e].task
               /\ lock[pc[e].rq] = e /\ lock[pc[e].other] = e
               /\ C7_Eligible(p, pc[e].rq, pc[e].other)
      /\ (pc[e].dropped
            /\ ~C7_Eligible(pc[e].task, pc[e].rq, pc[e].other)) =>
            /\ \A p \in TASKS : task'[p] = task[p]
            /\ pc'[e].op = pc[e].op /\ pc'[e].step = "unlock"
            /\ pc'[e].out = "reval_fail"
            /\ bug' = {}

\* C7: a push moves its task only in a step taken with both locks held in
\* which the task is on the source run-queue, queued, not on a CPU, real-time
\* and allowed on the target; when the lock was dropped and one of these no
\* longer holds, nothing is moved and the same push goes on; no task is ever
\* on two lists or on a list twice, and a task on a CPU is never moved.
C7_PushRevalidates == []C7_Placed /\ [][C7_Step]_vars

\* a push that dropped its lock has it back with the other one, and has found
\* its task no longer eligible
C7_Witness ==
  \E e \in CPUS :
    /\ pc[e].op \in PushOps /\ pc[e].step = "unlock"
    /\ pc[e].out = "reval_fail" /\ pc[e].dropped
    /\ ~C7_Eligible(pc[e].task, pc[e].rq, pc[e].other)

\* what the pull must find true of p, on run-queue src, to move it to this
C8_MayPull(p, this, src) ==
  /\ task[p].cpu = src
  /\ InSeq(rq[src].rt.pushable_tasks, p)
  /\ ~task[p].on_cpu
  /\ this \in task[p].cpus_allowed
  /\ task[p].prio < rq[this].rt.highest_prio.curr
  /\ ~(task[p].prio < prio_of(World, rq[src].curr))

\* C8: a pull moves a task only in a step taken with both run-queue locks
\* held, from the source to the local run-queue, and only a task that is in
\* the source's pushable set, not on a CPU, allowed on the local CPU, of
\* priority above the local highest_prio.curr and not above the priority of
\* the source's running task; it moves one task at most per source.
C8_Step ==
  \A e \in CPUS :
    /\ PullCommits(e) =>
         /\ \A p \in TASKS :
               Moved(p) =>
                  /\ lock[pc[e].rq] = e /\ lock[pc[e].other] = e
                  /\ task'[p].cpu = pc[e].rq
                  /\ C8_MayPull(p, pc[e].rq, pc[e].other)
         /\ Cardinality({p \in TASKS : Moved(p)}) <= 1
    /\ (pc[e].op \in PullOps /\ pc[e].step # "locked") =>
         (pc'[e] # pc[e] => \A p \in TASKS : ~Moved(p))
C8_PullConditions == [][C8_Step]_vars

\* a pull has just moved a task to the local run-queue and still holds both
\* locks
C8_Witness ==
  \E e \in CPUS :
    /\ pc[e].op \in PullOps /\ pc[e].step = "unlock" /\ pc[e].out = "pulled"
    /\ lock[pc[e].rq] = e /\ lock[pc[e].other] = e
    /\ \E p \in TASKS : task[p].cpu = pc[e].rq /\ task[p].on_rq = 1
                          /\ pc[e].rq \in task[p].cpus_allowed

\* the lock CPU e is about to take
Wants(e) ==
  IF pc[e].step = "dlb" THEN pc[e].other
  ELSE IF pc[e].step = "dlb_first" THEN Min(pc[e].rq, pc[e].other)
  ELSE IF pc[e].step = "dlb_second" THEN Max(pc[e].rq, pc[e].other)
  ELSE pc[e].rq

\* CPU e can do nothing until another CPU releases the lock e wants
Blocked(e) ==
  /\ \/ pc[e].step \in {"dlb_first", "dlb_second"}
     \/ pc[e].op = "callback"
     \/ /\ pc[e].step = "dlb"
        /\ ~double_lock_balance_unlocks(Machine, pc[e].rq, pc[e].other)
  /\ lock[Wants(e)] \notin {-1, e}

\* no set of CPUs each waits for a lock held inside the set
C9_NoCycle ==
  \A S \in (SUBSET CPUS) \ {{}} :
    ~(\A e \in S : Blocked(e) /\ lock[Wants(e)] \in S)

InDoubleLock(e) == pc[e].step \in {"dlb", "dlb_first", "dlb_second"}

\* CPU e takes a run-queue lock inside double_lock_balance
MigAcquire(e) ==
  \/ MigDoubleLockBalance(e)
  \/ MigDoubleRqLockFirst(e)
  \/ MigDoubleRqLockSecond(e)

\* CPU e runs a stretch of push_rt_task or pull_rt_task in which it waits for
\* nothing
MigRun(e) ==
  \/ \E cpu \in CPUS \cup {-1} : MigFindLowestRq(e, cpu)
  \/ MigLocked(e)
  \/ MigDoubleUnlockBalance(e)

\* the enabling condition of MigRun(e)
CanRun(e) == pc[e].step \in {"probe", "locked", "unlock"}

\* run-queue locks are fair: a CPU that finds the lock it wants free again and
\* again gets it (strong fairness of MigAcquire); a CPU that waits for nothing
\* goes on (weak fairness of MigRun, written with CanRun for its ENABLED)
SpecMigFair ==
  /\ SpecMig
  /\ \A e \in CPUS :
       /\ SF_vars(MigAcquire(e))
       /\ []<>(~CanRun(e)) \/ []<><<MigRun(e)>>_vars

\* C9: pushes and pulls running on different CPUs never wait for each
\* other's run-queue locks in a cycle, and every CPU that has entered
\* double_lock_balance gets to hold both locks.
C9_NoDeadlock ==
  /\ []C9_NoCycle
  /\ \A e \in CPUS : InDoubleLock(e) ~> (pc[e].step = "locked")

\* one CPU holds its run-queue lock and waits for the lock of the other, which
\* is in the middle of a push or pull of its own
C9_Witness ==
  \E e \in CPUS, f \in CPUS :
    /\ e # f
    /\ pc[e].step = "dlb" /\ lock[pc[e].rq] = e /\ Blocked(e)
    /\ lock[Wants(e)] = f /\ pc[f].op \in PushOps \cup PullOps

\* C10: no overload event is missed by the IPI relay: once a CPU b has
\* incremented rto_loop_next in tell_cpu_to_push, every CPU c whose bit is in
\* rto_mask at that moment gets to run rto_push_irq_work_func (or leaves
\* rto_mask first), also when the relay is in progress or just finishing.
C10_NoMissedEvent ==
  \A b \in RCPUS, c \in RCPUS :
    (pc[b].step = "trylock" /\ c \in rd.rto_mask)
      ~> (pc[c].step = "push" \/ c \notin rd.rto_mask)

\* CPU e is inside the section of tell_cpu_to_push guarded by rto_loop_start
InSection(e) ==
  pc[e].op = "tell"
  /\ pc[e].step \in {"lock", "scan", "check", "unlock", "release"}

\* CPU e carries the relay: it runs the irq work and has not yet got -1 from
\* rto_next_cpu, or it has got a CPU from rto_next_cpu and is about to queue
\* the work on it
Carries(e) ==
  \/ pc[e].op = "irq" /\ pc[e].step \in {"push", "lock", "scan", "check"}
  \/ pc[e].op \in {"irq", "tell"} /\ pc[e].step \in {"unlock", "release", "queue"}
       /\ pc[e].other >= 0

InFlight ==
  Cardinality({e \in RCPUS : Carries(e)})
    + (IF rd.rto_push_work # -1 THEN 1 ELSE 0)

C11_Inv ==
  /\ Cardinality({e \in RCPUS : InSection(e)}) <= 1
  /\ InFlight <= 1
  /\ rd.rto_push_work # -1 => rd.rto_cpu = rd.rto_push_work

\* a step that queues rto_push_work finds it not pending, and queues it on
\* rto_cpu, the CPU the relay has reached
C11_Step ==
  (rd'.rto_push_work # rd.rto_push_work /\ rd'.rto_push_work # -1) =>
     /\ rd.rto_push_work = -1
     /\ rd'.rto_push_work = rd.rto_cpu
     /\ \E e \in RCPUS : pc[e].step = "queue" /\ pc[e].other = rd.rto_cpu

\* C11: per root domain at most one IPI relay is in flight: at most one CPU
\* is inside the section guarded by rto_loop_start, at most one CPU or
\* pending irq work carries the relay, and rto_push_work is queued only when
\* it is not pending, by the CPU that moved rto_cpu, on rto_cpu; a
\* tell_cpu_to_push that finds rto_cpu >= 0 queues nothing.
C11_OneRelay == []C11_Inv /\ [][C11_Step]_vars

\* a relay is running on CPU a while CPU b, inside tell_cpu_to_push, has found
\* rto_cpu >= 0 and goes away without queueing
C11_Witness ==
  \E a \in RCPUS, b \in RCPUS :
    /\ a # b
    /\ pc[a].op = "irq" /\ pc[a].step = "push"
    /\ pc[b].op = "tell" /\ pc[b].step = "unlock" /\ pc[b].other = -1
    /\ rd.rto_cpu >= 0

\* C12: every task on a run-queue's pushable list is queued on that
\* run-queue, is a real-time task, is not the task the CPU is running and has
\* more than one allowed CPU; none of the BUG_ON lines of
\* pick_next_pushable_task fires.
C12_PushableWellFormed ==
  /\ \A c \in CPUS :
       \A i \in 1 .. Len(rq[c].rt.pushable_tasks) :
          LET p == rq[c].rt.pushable_tasks[i] IN
          /\ task[p].cpu = c
          /\ task[p].on_rq = 1
          /\ task[p].prio < MAX_RT_PRIO /\ task[p].class = "rt"
          /\ rq[c].curr # p
          /\ Cardinality(task[p].cpus_allowed) > 1
  /\ bug \cap {"pushable_wrong_cpu", "pushable_is_current", "pushable_pinned",
               "pushable_not_queued", "pushable_not_rt"} = {}

\* a push has picked the head of a pushable list while the CPU runs another
\* real-time task and a third task, pinned, is queued beside them
C12_Witness ==
  \E e \in CPUS :
    /\ pc[e].op \in PushOps /\ pc[e].step = "probe"
    /\ rq[pc[e].rq].rt.pushable_tasks # << >>
    /\ pc[e].task = rq[pc[e].rq].rt.pushable_tasks[1]
    /\ rq[pc[e].rq].curr \in TASKS
    /\ task["t3"].cpu = pc[e].rq /\ task["t3"].on_rq = 1
    /\ task["t3"].cpus_allowed = {0}

\* ------------------------------------------------------------------
\* The bandwidth machine driven by one task, under the scheduling the kernel
\* provides: an armed period timer (hrtimer) expires, and a CPU whose
\* need_resched flag is set passes through schedule().  Weak fairness of
\* both, with each action's enabling condition written out as its guard.
NextRefill ==
  \/ \E cpu \in CPUS : WakeUp("t1", cpu, FALSE)
  \/ \E c \in CPUS, sleep \in BOOLEAN : Schedule(c, sleep)
  \/ \E c \in CPUS : Tick(c)
  \/ PeriodTimer
  \/ \E r \in {0, GlobalRuntime, RUNTIME_INF} : Sysctl(r)

SpecRefill ==
  /\ InitBandwidth /\ [][NextRefill]_vars
  /\ []<>(bw.rt_period_active # 1) \/ []<><<PeriodTimer>>_vars
  /\ \A c \in CPUS :
       []<>(~rq[c].need_resched) \/ []<><<Schedule(c, FALSE)>>_vars

\* the step of the period timer that clears rt_throttled on CPU c
Unthrottles(c) == rq[c].rt.rt_throttled # 0 /\ rq'[c].rt.rt_throttled = 0

C13_Step ==
  \A c \in CPUS :
    Unthrottles(c) =>
      /\ rq'[c].rt.rt_time < rq'[c].rt.rt_runtime
      /\ rq'[c].rt.rt_nr_running > 0 =>
           rq'[c].rt.rt_queued = 1 /\ rq'[c].need_resched

ReportsIdle == bw.rt_period_active = 1 /\ bw'.rt_period_active = 0

\* C14 (as stated): the period timer reports idle only if every run-queue of
\* the span is left with rt_throttled clear, rt_time zero and no runnable
\* real-time task.
C14_AsStated ==
  [][ReportsIdle =>
       \A c \in CPUS :
         /\ rq'[c].rt.rt_throttled = 0
         /\ rq'[c].rt.rt_time = 0
         /\ rq'[c].rt.rt_nr_running = 0]_vars

\* C14 (as the code has it): the period timer reports idle only if no
\* run-queue of the span is left throttled and, unless the bandwidth is
\* switched off (quota RUNTIME_INF), every run-queue is left with rt_time
\* zero and no runnable real-time task.
C14_IdleReport ==
  [][ReportsIdle =>
       /\ \A c \in CPUS : rq'[c].rt.rt_throttled = 0
       /\ \/ bw.rt_runtime = RUNTIME_INF
          \/ \A c \in CPUS :
               rq'[c].rt.rt_time = 0 /\ rq'[c].rt.rt_nr_running = 0]_vars

\* the timer has stopped with the bandwidth switched off, leaving a run-queue
\* with consumed time and a runnable task
C14_Witness ==
  /\ bw.rt_period_active = 0 /\ bw.rt_runtime = RUNTIME_INF
  /\ \E c \in CPUS :
       /\ rq[c].rt.rt_nr_running > 0 /\ rq[c].rt.rt_throttled = 0
       /\ rq[c].rt.rt_time > 0

\* ------------------------------------------------------------------
\* update_curr_rt on CPU c with delta_exec = delta throttles the run-queue
Throttles(V, c) == rq[c].rt.rt_throttled = 0 /\ V.rq[c].rt.rt_throttled # 0

\* C15: the accounting step that throttles a run-queue drops no task: apart
\* from the consumed and borrowed time and the reschedule request it changes
\* only rt_throttled, rt_queued and the CPU's nr_running (which loses the
\* rt_nr_running tasks of the run-queue); the priority lists, the bitmap,
\* rt_nr_running, the migratory and overloaded counters, the pushable list
\* and every task are as before.
C15_ThrottleKeepsTasks ==
  \A c \in CPUS : \A delta \in Deltas(c) :
    LET V == update_curr_rt(Clocked(c, delta), c) IN
    Throttles(V, c) =>
      /\ [V.rq[c] EXCEPT !.rt.rt_throttled = rq[c].rt.rt_throttled,
                         !.rt.rt_queued = rq[c].rt.rt_queued,
                         !.nr_running = rq[c].nr_running,
                         !.rt.rt_time = rq[c].rt.rt_time,
                         !.rt.rt_runtime = rq[c].rt.rt_runtime,
                         !.need_resched = rq[c].need_resched] = rq[c]
      /\ V.rq[c].rt.rt_queued = 0
      /\ V.rq[c].nr_running =
           rq[c].nr_running
             - (IF rq[c].rt.rt_queued # 0 THEN rq[c].rt.rt_nr_running ELSE 0)
      /\ \A d \in CPUS \ {c} :
           [V.rq[d] EXCEPT !.rt.rt_runtime = rq[d].rt.rt_runtime] = rq[d]
      /\ V.task = task /\ V.rd = rd

\* a run-queue has just been throttled with its tasks still on the lists
C15_Witness ==
  \E c \in CPUS :
    /\ rq[c].rt.rt_throttled # 0 /\ rq[c].rt.rt_queued = 0
    /\ rq[c].rt.rt_nr_running > 0 /\ rq[c].rt.active.bitmap # {MAX_RT_PRIO}
    /\ curr_is_rt(World, c) /\ rq[c].need_resched

\* ------------------------------------------------------------------
\* Load tracking: the atomic machine of Spec with the task clocks running.
\* rq_clock_task of a CPU moves forward by one unit at a time.
ClockAdvance(c) ==
  /\ rq[c].clock_task < MaxClock
  /\ Set([World EXCEPT !.rq[c].clock_task = @ + 1])

NextLoadAvg ==
  \/ \E cpu \in CPUS : WakeUp("t1", cpu, FALSE)
  \/ \E c \in CPUS, sleep \in BOOLEAN : Schedule(c, sleep)
  \/ \E c \in CPUS : Tick(c)
  \/ \E c \in CPUS : ClockAdvance(c)

SpecLoadAvg == Init /\ [][NextLoadAvg]_vars

\* the four aggregates of a sched_avg
Aggregates(sa) == <<sa.util_avg, sa.util_sum, sa.load_avg, sa.load_sum>>

\* task p, off every run-queue, is woken onto CPU c (set_task_cpu, then
\* enqueue_task_rt) and dequeued at once for a sleep; the averages of the
\* run-queue of c are up to the clock and owe nothing to a departed task
RoundTrip(p, c) ==
  dequeue_task_rt(
    enqueue_task_rt(set_task_cpu(World, p, c), c, p, {"WAKEUP"}),
    c, p, {"SLEEP"})

CanRoundTrip(p, c) ==
  /\ task[p].on_rq = 0 /\ task[p].class = "rt" /\ c \in task[p].cpus_allowed
  /\ rq[c].rt.avg.last_update_time = rq[c].clock_task
  /\ rq[c].rt.removed_util_avg = 0 /\ rq[c].rt.removed_load_avg = 0

\* C16 (as stated): an enqueue followed at once by a dequeue leaves the
\* run-queue's util_avg, util_sum, load_avg and load_sum as they were.
C16_AsStated ==
  \A p \in TASKS, c \in CPUS :
    CanRoundTrip(p, c) =>
      Aggregates(RoundTrip(p, c).rq[c].rt.avg) = Aggregates(rq[c].rt.avg)

\* C16 (as the code has it): dequeue detaches nothing.  After the round trip
\* the run-queue's aggregates are as they were when the enqueue did not
\* attach, and are larger by the task's own averages when it did (the task
\* came with last_update_time = 0, that is from another CPU).
C16_RoundTrip ==
  \A p \in TASKS, c \in CPUS :
    CanRoundTrip(p, c) =>
      LET se == set_task_cpu(World, p, c).task[p].avg
          was == rq[c].rt.avg
          now == RoundTrip(p, c).rq[c].rt.avg IN
      IF se.last_update_time = 0
      THEN Aggregates(now) =
             <<was.util_avg + se.util_avg, was.util_sum + se.util_sum,
               was.load_avg + se.load_avg, was.load_sum + se.load_sum>>
      ELSE Aggregates(now) = Aggregates(was)

\* a sleeping task with utilisation of its own can be woken onto the other CPU
C16_Witness ==
  \E p \in TASKS, c \in CPUS :
    /\ CanRoundTrip(p, c) /\ task[p].cpu # c
    /\ task[p].avg.util_avg > 0 /\ task[p].avg.load_avg > 0

\* ============================================================== fluid RT
\* The CPUs the placement runs over: one slow coregroup of NFluid - 1 CPUs
\* and one fast coregroup of a single CPU, as init_frt finds them.
FCPUS == 0 .. (NFluid - 1)

cpu_coregroup_mask(cpu) ==
  IF cpu < NFluid - 1 THEN 0 .. (NFluid - 2) ELSE {NFluid - 1}

is_slowest_cpu(cpu) == cpu < NFluid - 1

\* capacity_orig_of, arch_scale_cpu_capacity and get_cpu_max_capacity of a
\* CPU that runs at its full frequency
capacity_orig_of(cpu) == IF is_slowest_cpu(cpu) THEN 512 ELSE 1024

cpumask_first(mask) == CHOOSE c \in mask : \A d \in mask : c <= d

\* frt_list as init_frt builds it: one domain per coregroup, in CPU order,
\* each with the dt default coverage-ratio of 100; dom->next of the last one
\* is the head
frt_list ==
  LET firsts == {c \in FCPUS : c = cpumask_first(cpu_coregroup_mask(c))}
      RECURSIVE list(_)
      list(S) ==
        IF S = {} THEN << >>
        ELSE <<[cpus |-> cpu_coregroup_mask(cpumask_first(S)),
                coverage_ratio |-> 100]>> \o list(S \ {cpumask_first(S)})
  IN list(firsts)

\* per_cpu(frt_rqs, cpu), as an index into frt_list
frt_rqs(cpu) == CHOOSE i \in DOMAIN frt_list : cpu \in frt_list[i].cpus

ratio_scale(v, r) == (v * r * 10) \div 1024

\* frt_set_coverage_ratio
coverage_thr(i) ==
  ratio_scale(capacity_orig_of(cpumask_first(frt_list[i].cpus)),
              frt_list[i].coverage_ratio)

\* idle_cpu(cpu): the idle task runs and nothing is queued
idle_cpu(W, cpu) == W.rq[cpu].curr = IDLE /\ W.rq[cpu].nr_running = 0

cpu_active(W, cpu) == W.rq[cpu].online

\* rtprio_to_weight[]: a table that falls as the index rises
rtprio_to_weight(idx) == 2 * (60 - idx)

\* sched_prio_to_weight[]: the nice table, below every real-time weight
sched_prio_to_weight(idx) == 40 - idx

rttsk_task_util(W, tsk) == W.task[tsk].avg.util_avg

\* What the placement reads from outside the real-time class, as it stands
\* at the call: schedtune's prefer_perf of the task, the fair-class side of
\* the task (never in the fair class; once in it, its entity attached and
\* carrying utilization; the same with a schedtune boost), the CPUs'
\* fair-class utilization, and the activated mask that update_activated_cpus
\* last wrote (every CPU, or every CPU but the fast coregroup when both
\* domains were idle).
FluidEnvs ==
  { [ prefer_perf |-> pp, margin |-> f[1], task_util |-> f[2],
      se_attached |-> f[2] # 0, cfs_util |-> u, activated |-> a ] :
      pp \in BOOLEAN,
      f \in {<<0, 0>>, <<0, FluidUtil>>, <<FluidMargin, FluidUtil>>},
      u \in [FCPUS -> {0, FluidBusy}],
      a \in {FCPUS, FCPUS \ {NFluid - 1}} }

weight_from_rtprio(prio) ==
  LET idx == prio \div 2 IN
  IF ~(prio < MAX_RT_PRIO) THEN sched_prio_to_weight(prio - MAX_RT_PRIO)
  ELSE IF idx * 2 = prio THEN rtprio_to_weight(idx)
  ELSE (rtprio_to_weight(idx) + rtprio_to_weight(idx + 1)) \div 2

\* schedtune_task_boost(p) = 0 is a margin of 0
frt_boosted_task_util(env) == env.task_util + env.margin

frt_cpu_util_wake(W, env, cpu, p) ==
  LET util == env.cfs_util[cpu] + W.rq[cpu].rt.avg.util_avg IN
  IF cpu # W.task[p].cpu \/ ~env.se_attached THEN util
  ELSE Min(util - Min(util, env.task_util), capacity_orig_of(cpu))

cpu_selected(cpu) == NFluid > cpu /\ cpu >= 0

set_victim_flag(W, p) == [W EXCEPT !.task[p].victim_flag = 1]

\* returns allowed_cpu
frt_find_prefer_cpu(W, renv) ==
  LET allowed == W.task[renv.p].cpus_allowed
      RECURSIVE doms(_, _)
      doms(i, allowed_cpu) ==
        IF i > Len(frt_list) THEN allowed_cpu
        ELSE LET cpus == allowed \cap frt_list[i].cpus IN
             IF renv.prefer_perf
                /\ is_slowest_cpu(cpumask_first(frt_list[i].cpus))
             THEN doms(i + 1, allowed_cpu)
             ELSE IF cpus = {} THEN doms(i + 1, allowed_cpu)
             ELSE IF rttsk_task_util(W, renv.p) < coverage_thr(i)
                  THEN cpumask_first(cpus)
             ELSE doms(i + 1, CHOOSE c \in cpus : \A d \in cpus : d <= c)
  IN doms(1, 0)

\* the do { } while (dom != prefer_dom) of find_idle_cpu and
\* find_recessive_cpu: scan(cpu, acc) is the body of the inner loop for one
\* CPU, acc = [best_cpu, max_prio, min_load]
frt_dom_ring(W, renv, candidate_cpus, scan(_, _)) ==
  LET prefer_dom == frt_rqs(frt_find_prefer_cpu(W, renv))
      RECURSIVE cpus(_, _, _)
      cpus(i, cpu, acc) ==
        IF cpu >= NFluid THEN acc
        ELSE IF cpu \in frt_list[i].cpus /\ cpu \in candidate_cpus
             THEN cpus(i, cpu + 1, scan(cpu, acc))
        ELSE cpus(i, cpu + 1, acc)
      RECURSIVE ring(_, _)
      ring(i, acc) ==
        LET a == cpus(i, 0, acc)
            next == IF i = Len(frt_list) THEN 1 ELSE i + 1 IN
        IF cpu_selected(a.best_cpu) THEN a.best_cpu
        ELSE IF next = prefer_dom THEN a.best_cpu
        ELSE ring(next, a)
  IN ring(prefer_dom, [best_cpu |-> -1, max_prio |-> -1,
                       min_load |-> ULLONG_MAX])

\* variant: the scan does not ask whether the CPU is idle
find_idle_cpu_any(W, env, renv) ==
  LET allowed == W.task[renv.p].cpus_allowed
      active == {c \in allowed : cpu_active(W, c)} \cap env.activated
      candidate_cpus == IF active = {} THEN allowed ELSE active
      scan(cpu, acc) ==
        LET cpu_prio == W.rq[cpu].rt.highest_prio.curr
            cpu_load == Max(frt_cpu_util_wake(W, env, cpu, renv.p)
                              + renv.task_util, renv.min_util) IN
        IF renv.prefer_perf /\ is_slowest_cpu(cpu) THEN acc
        ELSE IF cpu_prio < acc.max_prio THEN acc
        ELSE IF cpu_load > capacity_orig_of(cpu) THEN acc
        ELSE IF \/ cpu_prio > acc.max_prio
                \/ cpu_load < acc.min_load
                \/ (cpu_load = acc.min_load /\ renv.prev_cpu = cpu)
             THEN [best_cpu |-> cpu, max_prio |-> cpu_prio,
                   min_load |-> cpu_load]
        ELSE acc
  IN frt_dom_ring(W, renv, candidate_cpus, scan)

find_idle_cpu(W, env, renv) ==
  LET allowed == W.task[renv.p].cpus_allowed
      active == {c \in allowed : cpu_active(W, c)} \cap env.activated
      candidate_cpus == IF active = {} THEN allowed ELSE active
      scan(cpu, acc) ==
        LET cpu_prio == W.rq[cpu].rt.highest_prio.curr
            cpu_load == Max(frt_cpu_util_wake(W, env, cpu, renv.p)
                              + renv.task_util, renv.min_util) IN
        IF ~idle_cpu(W, cpu) THEN acc
        ELSE IF renv.prefer_perf /\ is_slowest_cpu(cpu) THEN acc
        ELSE IF cpu_prio < acc.max_prio THEN acc
        ELSE IF cpu_load > capacity_orig_of(cpu) THEN acc
        ELSE IF \/ cpu_prio > acc.max_prio
                \/ cpu_load < acc.min_load
                \/ (cpu_load = acc.min_load /\ renv.prev_cpu = cpu)
             THEN [best_cpu |-> cpu, max_prio |-> cpu_prio,
                   min_load |-> cpu_load]
        ELSE acc
  IN frt_dom_ring(W, renv, candidate_cpus, scan)

\* cpupri_find(&rd->cpupri, p, lowest_mask): the CPUs p may run on that sit
\* at the lowest priority level found below p's own
cpupri_lowest_mask(W, p) ==
  LET below == {c \in W.task[p].cpus_allowed :
                  W.rq[c].online /\ W.rq[c].rt.highest_prio.curr > prio_of(W, p)}
  IN {c \in below : \A d \in below :
        W.rq[d].rt.highest_prio.curr <= W.rq[c].rt.highest_prio.curr}

find_recessive_cpu(W, env, renv) ==
  LET lowest_mask == cpupri_lowest_mask(W, renv.p)
      candidate_cpus ==
        {c \in W.task[renv.p].cpus_allowed \cap lowest_mask : cpu_active(W, c)}
      scan(cpu, acc) ==
        LET cpu_load == Max(frt_cpu_util_wake(W, env, cpu, renv.p)
                              + renv.task_util, renv.min_util) IN
        IF renv.prefer_perf /\ is_slowest_cpu(cpu) THEN acc
        ELSE IF cpu_load > capacity_orig_of(cpu) THEN acc
        ELSE IF \/ cpu_load < acc.min_load
                \/ (cpu_load = acc.min_load /\ renv.prev_cpu = cpu)
             THEN [acc EXCEPT !.best_cpu = cpu, !.min_load = cpu_load]
        ELSE acc
  IN frt_dom_ring(W, renv, candidate_cpus, scan)

\* variant: the first real-time victim below the task's weight is kept,
\* whatever the later ones weigh
find_victim_rt_rq_first(W, p, sg_cpus, best_cpu) ==
  LET target_rtweight ==
        rttsk_task_util(W, p) * weight_from_rtprio(W.task[p].prio)
      body(i, acc) ==
        LET victim == W.rq[i].curr
            victim_cpu_cap == capacity_orig_of(i)
            victim_rtweight ==
              W.task[victim].avg.util_avg
                * weight_from_rtprio(W.task[victim].prio)
            take == [acc EXCEPT !.min_rtweight = 0,
                                !.best_cpu = i,
                                !.min_cpu_cap = victim_cpu_cap] IN
        IF (IF victim = IDLE THEN 1 ELSE nr_cpus_allowed(W, victim)) < 2
        THEN acc
        ELSE IF rt_task(W, victim)
             THEN IF acc.min_cpu_cap = victim_cpu_cap
                  THEN IF victim_rtweight < acc.min_rtweight THEN take
                       ELSE acc
                  ELSE IF victim_rtweight * acc.min_cpu_cap
                            < acc.min_rtweight * victim_cpu_cap
                       THEN take
                  ELSE acc
        ELSE [acc EXCEPT !.best_cpu = i, !.victim_rt = FALSE]
      RECURSIVE loop(_, _)
      loop(i, acc) ==
        IF i >= NFluid \/ ~acc.victim_rt THEN acc
        ELSE IF i \in sg_cpus /\ i \in W.task[p].cpus_allowed
             THEN loop(i + 1, body(i, acc))
        ELSE loop(i + 1, acc)
      r == loop(0, [best_cpu |-> best_cpu, min_rtweight |-> target_rtweight,
                    min_cpu_cap |-> capacity_orig_of(W.task[p].cpu),
                    victim_rt |-> TRUE]) IN
  IF ~rt_task(W, p) THEN [W |-> W, best_cpu |-> best_cpu]
  ELSE IF r.best_cpu >= 0 /\ r.victim_rt
       THEN [W |-> set_victim_flag(W, W.rq[r.best_cpu].curr),
             best_cpu |-> r.best_cpu]
  ELSE [W |-> W, best_cpu |-> r.best_cpu]

\* returns [W, best_cpu]; best_cpu comes in as *best_cpu
find_victim_rt_rq(W, p, sg_cpus, best_cpu) ==
  LET target_rtweight ==
        rttsk_task_util(W, p) * weight_from_rtprio(W.task[p].prio)
      body(i, acc) ==
        LET victim == W.rq[i].curr
            victim_cpu_cap == capacity_orig_of(i)
            victim_rtweight ==
              W.task[victim].avg.util_avg
                * weight_from_rtprio(W.task[victim].prio)
            take == [acc EXCEPT !.min_rtweight = victim_rtweight,
                                !.best_cpu = i,
                                !.min_cpu_cap = victim_cpu_cap] IN
        IF (IF victim = IDLE THEN 1 ELSE nr_cpus_allowed(W, victim)) < 2
        THEN acc
        ELSE IF rt_task(W, victim)
             THEN IF acc.min_cpu_cap = victim_cpu_cap
                  THEN IF victim_rtweight < acc.min_rtweight THEN take
                       ELSE acc
                  ELSE IF victim_rtweight * acc.min_cpu_cap
                            < acc.min_rtweight * victim_cpu_cap
                       THEN take
                  ELSE acc
        ELSE [acc EXCEPT !.best_cpu = i, !.victim_rt = FALSE]
      RECURSIVE loop(_, _)
      loop(i, acc) ==
        IF i >= NFluid \/ ~acc.victim_rt THEN acc
        ELSE IF i \in sg_cpus /\ i \in W.task[p].cpus_allowed
             THEN loop(i + 1, body(i, acc))
        ELSE loop(i + 1, acc)
      r == loop(0, [best_cpu |-> best_cpu, min_rtweight |-> target_rtweight,
                    min_cpu_cap |-> capacity_orig_of(W.task[p].cpu),
                    victim_rt |-> TRUE]) IN
  IF ~rt_task(W, p) THEN [W |-> W, best_cpu |-> best_cpu]
  ELSE IF r.best_cpu >= 0 /\ r.victim_rt
       THEN [W |-> set_victim_flag(W, W.rq[r.best_cpu].curr),
             best_cpu |-> r.best_cpu]
  ELSE [W |-> W, best_cpu |-> r.best_cpu]

\* struct rt_env renv as find_lowest_rq_fluid fills it in
rt_env(W, env, p) ==
  [p |-> p, task_util |-> env.task_util,
   min_util |-> frt_boosted_task_util(env),
   prefer_perf |-> env.prefer_perf, prev_cpu |-> W.task[p].cpu]

\* variant: the recessive step is tried before the idle-first step
find_lowest_rq_fluid_recessive_first(W, env, p) ==
  LET renv == rt_env(W, env, p)
      idle == find_idle_cpu(W, env, renv)
      recessive == find_recessive_cpu(W, env, renv)
      \* 3. victim task first: r = [W, best_cpu]
      RECURSIVE victim(_, _)
      victim(cpu, r) ==
        IF cpu >= NFluid THEN r
        ELSE IF ~cpu_active(W, cpu) THEN victim(cpu + 1, r)
        ELSE IF cpu # cpumask_first(cpu_coregroup_mask(cpu))
             THEN victim(cpu + 1, r)
        ELSE IF renv.prefer_perf /\ is_slowest_cpu(cpu)
             THEN victim(cpu + 1, r)
        ELSE LET f == find_victim_rt_rq(r.W, p, cpu_coregroup_mask(cpu),
                                        r.best_cpu) IN
             IF f.best_cpu # -1 THEN f ELSE victim(cpu + 1, f)
      out(V, best_cpu, stat) ==
        LET cpu == IF ~cpu_selected(best_cpu) THEN W.task[p].cpu
                   ELSE best_cpu IN
        [W |-> V, cpu |-> IF ~W.rq[cpu].online THEN -1 ELSE cpu,
         stat |-> stat] IN
  IF nr_cpus_allowed(W, p) = 1 THEN out(W, -1, "NA ALLOWED")
  ELSE IF cpu_selected(recessive) THEN out(W, recessive, "RECESS")
  ELSE IF cpu_selected(idle) THEN out(W, idle, "IDLE-FIRST")
  ELSE LET v == victim(0, [W |-> W, best_cpu |-> -1]) IN
       out(v.W, v.best_cpu, "VICTIM")

\* variant: the answer is returned without the final online test
find_lowest_rq_fluid_unchecked(W, env, p) ==
  LET renv == rt_env(W, env, p)
      idle == find_idle_cpu(W, env, renv)
      recessive == find_recessive_cpu(W, env, renv)
      \* 3. victim task first: r = [W, best_cpu]
      RECURSIVE victim(_, _)
      victim(cpu, r) ==
        IF cpu >= NFluid THEN r
        ELSE IF ~cpu_active(W, cpu) THEN victim(cpu + 1, r)
        ELSE IF cpu # cpumask_first(cpu_coregroup_mask(cpu))
             THEN victim(cpu + 1, r)
        ELSE IF renv.prefer_perf /\ is_slowest_cpu(cpu)
             THEN victim(cpu + 1, r)
        ELSE LET f == find_victim_rt_rq(r.W, p, cpu_coregroup_mask(cpu),
                                        r.best_cpu) IN
             IF f.best_cpu # -1 THEN f ELSE victim(cpu + 1, f)
      out(V, best_cpu, stat) ==
        LET cpu == IF ~cpu_selected(best_cpu) THEN W.task[p].cpu
                   ELSE best_cpu IN
        [W |-> V, cpu |-> cpu, stat |-> stat] IN
  IF nr_cpus_allowed(W, p) = 1 THEN out(W, -1, "NA ALLOWED")
  ELSE IF cpu_selected(idle) THEN out(W, idle, "IDLE-FIRST")
  ELSE IF cpu_selected(recessive) THEN out(W, recessive, "RECESS")
  ELSE LET v == victim(0, [W |-> W, best_cpu |-> -1]) IN
       out(v.W, v.best_cpu, "VICTIM")

\* returns [W, cpu, stat]; stat is the step that selected the CPU, as
\* trace_sched_fluid_stat names it
find_lowest_rq_fluid(W, env, p) ==
  LET renv == rt_env(W, env, p)
      idle == find_idle_cpu(W, env, renv)
      recessive == find_recessive_cpu(W, env, renv)
      \* 3. victim task first: r = [W, best_cpu]
      RECURSIVE victim(_, _)
      victim(cpu, r) ==
        IF cpu >= NFluid THEN r
        ELSE IF ~cpu_active(W, cpu) THEN victim(cpu + 1, r)
        ELSE IF cpu # cpumask_first(cpu_coregroup_mask(cpu))
             THEN victim(cpu + 1, r)
        ELSE IF renv.prefer_perf /\ is_slowest_cpu(cpu)
             THEN victim(cpu + 1, r)
        ELSE LET f == find_victim_rt_rq(r.W, p, cpu_coregroup_mask(cpu),
                                        r.best_cpu) IN
             IF f.best_cpu # -1 THEN f ELSE victim(cpu + 1, f)
      out(V, best_cpu, stat) ==
        LET cpu == IF ~cpu_selected(best_cpu) THEN W.task[p].cpu
                   ELSE best_cpu IN
        [W |-> V, cpu |-> IF ~W.rq[cpu].online THEN -1 ELSE cpu,
         stat |-> stat] IN
  IF nr_cpus_allowed(W, p) = 1 THEN out(W, -1, "NA ALLOWED")
  ELSE IF cpu_selected(idle) THEN out(W, idle, "IDLE-FIRST")
  ELSE IF cpu_selected(recessive) THEN out(W, recessive, "RECESS")
  ELSE LET v == victim(0, [W |-> W, best_cpu |-> -1]) IN
       out(v.W, v.best_cpu, "VICTIM")

\* select_task_rq_rt for a wake-up (SD_BALANCE_WAKE); returns [W, cpu]
select_task_rq_rt(W, env, p, cpu) ==
  LET f == find_lowest_rq_fluid(W, env, p) IN
  [W |-> f.W, cpu |-> IF f.cpu # -1 THEN f.cpu ELSE cpu]

\* ------------------------------------------------- fluid RT: wake-up path
\* The three tasks have run on CPU 0 before and sleep there: each kept the
\* utilization u[t] it built up, and CPU 0's run-queue still carries them.
FluidPrio(t) == IF t = "t2" THEN 5 ELSE InitPrio(t)

FluidAvg(util, period_contrib) ==
  [InitAvg EXCEPT !.util_avg = util,
                  !.util_sum = util * (LOAD_AVG_MAX - 1024 + period_contrib),
                  !.period_contrib = period_contrib]

RECURSIVE Sum(_, _)
Sum(f, S) ==
  IF S = {} THEN 0
  ELSE LET x == CHOOSE x \in S : TRUE IN f[x] + Sum(f, S \ {x})

InitFluid ==
  \E u \in {f \in [TASKS -> {FluidLow, FluidHigh}] :
              f["t1"] = FluidLow /\ f["t2"] = FluidLow} :
    /\ rq = [c \in FCPUS |->
               [InitRq(RUNTIME_INF) EXCEPT !.rt.avg =
                  IF c = 0 THEN FluidAvg(Sum(u, TASKS), 0) ELSE InitAvg]]
    /\ task = [t \in TASKS |->
                 [InitTask(t) EXCEPT !.prio = FluidPrio(t),
                                     !.cpus_allowed = FCPUS,
                                     !.avg = FluidAvg(u[t], 1023)]]
    /\ rd = InitRd
    /\ bw = InitBw(RUNTIME_INF)
    /\ feat = [RT_RUNTIME_SHARE |-> FALSE, RT_PUSH_IPI |-> FALSE,
               PREEMPT |-> FALSE]
    /\ bug = {}
    /\ lend = {}
    /\ over = {}
    /\ trace = {}
    /\ lock = [c \in FCPUS |-> -1]
    /\ pc = [e \in FCPUS |-> NoOp]

\* select_fallback_rq: some online CPU the task may run on
select_fallback_rq(W, p) ==
  {c \in W.task[p].cpus_allowed : W.rq[c].online}

\* what select_task_rq_rt can answer for p, from the CPU p slept on: one
\* [W, cpu] per state of the world outside the class
FluidSelections(p) ==
  {select_task_rq_rt(World, env, p, task[p].cpu) : env \in FluidEnvs}

\* try_to_wake_up of a sleeping task: select_task_rq, select_fallback_rq
\* when the answer cannot be used, then the activation on that CPU
FluidWakeUp(p) ==
  /\ task[p].on_rq = 0 /\ ~task[p].on_cpu
  /\ \E s \in FluidSelections(p) :
        \E cpu \in IF s.cpu \in select_fallback_rq(World, p) THEN {s.cpu}
                   ELSE select_fallback_rq(World, p) :
           Set(try_to_wake_up(s.W, p, cpu, FALSE, [t \in TASKS |-> -1]))

NextFluid ==
  \/ \E p \in TASKS : FluidWakeUp(p)
  \/ \E c \in FCPUS : Schedule(c, FALSE)
  \/ \E m \in {FCPUS, {0}, {0, 1}, {0, NFluid - 1}} : SetAffinity("t3", m)

SpecFluid == InitFluid /\ [][NextFluid]_vars

\* ------------------------------------------------------------------- C17
\* the load find_idle_cpu and find_recessive_cpu project for p on cpu
ProjectedLoad(env, cpu, p) ==
  Max(frt_cpu_util_wake(World, env, cpu, p) + env.task_util,
      frt_boosted_task_util(env))

\* cpu is allowed, active, activated and idle, p's projected load fits its
\* original capacity, and it is not a slowest CPU when p prefers performance
IdleEligible(env, cpu, p) ==
  /\ cpu \in task[p].cpus_allowed /\ cpu_active(World, cpu)
  /\ cpu \in env.activated
  /\ idle_cpu(World, cpu)
  /\ ProjectedLoad(env, cpu, p) <= capacity_orig_of(cpu)
  /\ ~(env.prefer_perf /\ is_slowest_cpu(cpu))

\* C17: for a real-time task that is not running and is allowed on more
\* than one CPU, whenever some
\* allowed, active and activated CPU is idle and the task's projected load
\* fits it (and it is not a slowest CPU when the task prefers performance),
\* find_lowest_rq_fluid answers an idle CPU, selected by the idle-first step;
\* with affinity {0,1}, CPU 0 such a CPU and CPU 1 running a task of
\* priority 5, the answer is CPU 0.
C17_IdleFirst ==
  \A p \in TASKS, env \in FluidEnvs :
    (/\ rt_task(World, p) /\ ~task[p].on_cpu
     /\ nr_cpus_allowed(World, p) > 1
     /\ \E cpu \in FCPUS : IdleEligible(env, cpu, p))
    => LET f == find_lowest_rq_fluid(World, env, p) IN
       /\ f.cpu \in FCPUS /\ idle_cpu(World, f.cpu)
       /\ f.stat = "IDLE-FIRST"
       /\ f.W.task = task
       /\ (/\ task[p].cpus_allowed = {0, 1} /\ IdleEligible(env, 0, p)
           /\ rq[1].curr # IDLE /\ prio_of(World, rq[1].curr) = 5)
          => f.cpu = 0

\* a task allowed on CPUs 0 and 1 has been woken onto the idle CPU 0, which
\* has not switched to it yet, while CPU 1 runs a task of priority 5
C17_Witness ==
  \E p \in TASKS :
    /\ task[p].cpus_allowed = {0, 1}
    /\ task[p].on_rq = 1 /\ task[p].cpu = 0 /\ ~task[p].on_cpu
    /\ rq[0].curr = IDLE /\ rq[0].need_resched /\ rq[0].nr_running = 1
    /\ rq[1].curr # IDLE /\ prio_of(World, rq[1].curr) = 5

\* ------------------------------------------------------------------- C18
\* the weighted demand of a task: utilization x priority weight
RtWeight(t) == task[t].avg.util_avg * weight_from_rtprio(task[t].prio)

MigratableRt(cpu) ==
  /\ rt_task(World, rq[cpu].curr)
  /\ nr_cpus_allowed(World, rq[cpu].curr) >= 2

\* the task running on cpu weighs less for cpu's capacity than p weighs for
\* the capacity of the CPU p slept on
BelowWaker(p, cpu) ==
  RtWeight(rq[cpu].curr) * capacity_orig_of(task[p].cpu)
    < RtWeight(p) * capacity_orig_of(cpu)

\* p is a waiting real-time task with more than one CPU, neither the
\* idle-first nor the recessive step selects a CPU for it, and every CPU it
\* is allowed on runs a migratable real-time task
VictimCase(env, p) ==
  /\ rt_task(World, p) /\ ~task[p].on_cpu
  /\ nr_cpus_allowed(World, p) > 1
  /\ ~cpu_selected(find_idle_cpu(World, env, rt_env(World, env, p)))
  /\ ~cpu_selected(find_recessive_cpu(World, env, rt_env(World, env, p)))
  /\ \A cpu \in task[p].cpus_allowed : MigratableRt(cpu)

\* the call that left V marked the task running on cpu and no other task
MarksOnly(V, cpu) == V.task = [task EXCEPT ![rq[cpu].curr].victim_flag = 1]

VictimGroups(env) ==
  {g \in FCPUS : /\ g = cpumask_first(cpu_coregroup_mask(g))
                 /\ cpu_active(World, g)
                 /\ ~(env.prefer_perf /\ is_slowest_cpu(g))}

VictimCandidates(p, g) ==
  {c \in cpu_coregroup_mask(g) \cap task[p].cpus_allowed : BelowWaker(p, c)}

MarkedVictim(s) ==
  /\ s.cpu \in FCPUS /\ rq[s.cpu].curr # IDLE
  /\ task[rq[s.cpu].curr].victim_flag = 0
  /\ s.W.task[rq[s.cpu].curr].victim_flag = 1

\* C19: when the placement of a waking task has marked the task running on
\* the selected CPU as victim, the preemption check of the wake-up on that
\* CPU (check_preempt_curr_rt for the waking task) leaves the CPU asked to
\* reschedule, whatever the two priorities are.
C19_VictimPreempted ==
  \A p \in TASKS :
    (task[p].on_rq = 0 /\ ~task[p].on_cpu)
    => \A s \in FluidSelections(p) :
         (MarkedVictim(s) /\ s.cpu \in select_fallback_rq(World, p))
         => try_to_wake_up(s.W, p, s.cpu, FALSE,
                           [t \in TASKS |-> -1]).rq[s.cpu].need_resched

RECURSIVE disable_runtime_reclaim(_, _, _, _)
\* the greedy reclaim loop of __disable_runtime, from CPU i on: r = [W, want]
disable_runtime_reclaim(W, c, i, want) ==
  IF i \notin DOMAIN W.rq THEN [W |-> W, want |-> want]
  ELSE IF i = c \/ W.rq[i].rt.rt_runtime = RUNTIME_INF
       THEN disable_runtime_reclaim(W, c, i + 1, want)
  ELSE LET diff == IF want > 0 THEN Min(W.rq[i].rt.rt_runtime, want)
                   ELSE want
           W1 == [W EXCEPT !.rq[i].rt.rt_runtime = @ - diff] IN
       IF want - diff = 0 THEN [W |-> W1, want |-> 0]
       ELSE disable_runtime_reclaim(W1, c, i + 1, want - diff)

\* variant: a run-queue that lent or borrowed is disabled without the reclaim
__disable_runtime_no_reclaim(W, c) ==
  LET rt == W.rq[c].rt
      r == IF rt.rt_runtime = RUNTIME_INF \/ rt.rt_runtime = W.bw.rt_runtime
           THEN [W |-> W, want |-> 0]
           ELSE [W |-> W, want |-> 0]
      W1 == [BugOn(r.W, r.want # 0, "disable_runtime_want")
               EXCEPT !.rq[c].rt.rt_runtime = RUNTIME_INF,
                      !.rq[c].rt.rt_throttled = 0]
      \* sched_rt_rq_enqueue
      W2 == IF W1.rq[c].rt.rt_nr_running # 0
            THEN resched_curr(enqueue_top_rt_rq(W1, c), c)
            ELSE W1 IN
  W2

__disable_runtime(W, c) ==
  LET rt == W.rq[c].rt
      r == IF rt.rt_runtime = RUNTIME_INF \/ rt.rt_runtime = W.bw.rt_runtime
           THEN [W |-> W, want |-> 0]
           ELSE disable_runtime_reclaim(W, c, 0,
                                        W.bw.rt_runtime - rt.rt_runtime)
      W1 == [BugOn(r.W, r.want # 0, "disable_runtime_want")
               EXCEPT !.rq[c].rt.rt_runtime = RUNTIME_INF,
                      !.rq[c].rt.rt_throttled = 0]
      \* sched_rt_rq_enqueue
      W2 == IF W1.rq[c].rt.rt_nr_running # 0
            THEN resched_curr(enqueue_top_rt_rq(W1, c), c)
            ELSE W1 IN
  W2

__enable_runtime(W, c) ==
  [W EXCEPT !.rq[c].rt.rt_runtime = W.bw.rt_runtime,
            !.rq[c].rt.rt_time = 0,
            !.rq[c].rt.rt_throttled = 0]

\* the priority a CPU has in cpupri is read from rq.online and
\* rt.highest_prio.curr, so cpupri_set is the change of rq.online
rq_online_rt(W, c) ==
  LET W1 == IF W.rq[c].rt.overloaded # 0 THEN rt_set_overload(W, c) ELSE W IN
  __enable_runtime(W1, c)

\* variant: an overloaded run-queue goes offline with its rto_mask bit set
rq_offline_rt_keeps_overload(W, c) ==
  __disable_runtime(W, c)

rq_offline_rt(W, c) ==
  LET W1 == IF W.rq[c].rt.overloaded # 0 THEN rt_clear_overload(W, c)
            ELSE W IN
  __disable_runtime(W1, c)

\* set_rq_offline of a CPU that is going down, once its tasks have been
\* moved away: the class hook runs while the run-queue is still online
CpuDown(c) ==
  /\ rq[c].online /\ rq[c].curr = IDLE /\ rq[c].nr_running = 0
  /\ \E d \in DOMAIN rq : d # c /\ rq[d].online
  /\ Set([rq_offline_rt(World, c) EXCEPT !.rq[c].online = FALSE])

\* set_rq_online of a CPU that comes up: the run-queue is marked online
\* before the class hook runs
CpuUp(c) ==
  /\ ~rq[c].online
  /\ Set(rq_online_rt([World EXCEPT !.rq[c].online = TRUE], c))

NextHotplug ==
  \/ \E p \in TASKS : FluidWakeUp(p)
  \/ \E c \in FCPUS : rq[c].online /\ Schedule(c, FALSE)
  \/ \E m \in {FCPUS, {0}, {0, 1}, {0, NFluid - 1}} : SetAffinity("t3", m)
  \/ \E c \in {0, NFluid - 1} : CpuDown(c)
  \/ \E c \in {0, NFluid - 1} : CpuUp(c)

SpecHotplug == InitFluid /\ [][NextHotplug]_vars

\* ------------------------------------------------------------------- C21
\* no step of find_lowest_rq_fluid selects a CPU for p: p has a single
\* allowed CPU, or the idle-first and the recessive step select nothing and
\* no coregroup the victim step visits has a victim
NoStrategySelects(env, p) ==
  \/ nr_cpus_allowed(World, p) = 1
  \/ /\ ~cpu_selected(find_idle_cpu(World, env, rt_env(World, env, p)))
     /\ ~cpu_selected(find_recessive_cpu(World, env, rt_env(World, env, p)))
     /\ \A g \in VictimGroups(env) :
          find_victim_rt_rq(World, p, cpu_coregroup_mask(g), -1).best_cpu = -1

\* C21: for every task that is not running, find_lowest_rq_fluid answers -1
\* or an online CPU; when no step selects a CPU the answer is the CPU of the
\* task's run-queue if that CPU is online and -1 if it is not.
C21_OnlineOrInvalid ==
  \A p \in TASKS, env \in FluidEnvs :
    ~task[p].on_cpu
    => LET f == find_lowest_rq_fluid(World, env, p) IN
       /\ f.cpu = -1 \/ (f.cpu \in FCPUS /\ rq[f.cpu].online)
       /\ \/ f.cpu = IF rq[task[p].cpu].online THEN task[p].cpu ELSE -1
          \/ ~NoStrategySelects(env, p)

\* a sleeping task's CPU has gone offline, the task has a single allowed
\* CPU, which is that one, and another task runs elsewhere
C21_Witness ==
  \E p \in TASKS :
    /\ task[p].on_rq = 0 /\ ~task[p].on_cpu
    /\ ~rq[task[p].cpu].online
    /\ task[p].cpus_allowed = {task[p].cpu}
    /\ \E c \in FCPUS : rq[c].curr # IDLE

\* ==================================================================== EMS
\* The wake-up balance of the fair class on the CPUs of the fluid model.
\* e is what the code reads from outside the run-queues at the call: the
\* waking task e.p, the fair-class utilization of the CPUs, their idle
\* states, the schedtune attributes of the task and of the running tasks,
\* and the answers of the strategies that live in other files.
INT_MAX == 2147483647
ULONG_MAX == ULLONG_MAX

cpu_slowest_mask == {c \in FCPUS : is_slowest_cpu(c)}
cpu_fastest_mask == {c \in FCPUS : ~is_slowest_cpu(c)}
cpu_active_mask(W) == {c \in FCPUS : cpu_active(W, c)}

\* cpu_util: the fair run-queue's util_avg, its estimate when UTIL_EST is
\* on, never above the CPU's capacity
cpu_util(e, cpu) ==
  Min(IF e.UTIL_EST THEN Max(e.cfs_util[cpu], e.util_est_enqueued[cpu])
      ELSE e.cfs_util[cpu],
      capacity_orig_of(cpu))

\* x | UTIL_AVG_UNCHANGED
or_UTIL_AVG_UNCHANGED(x) == IF x % 2 = 0 THEN x + 1 ELSE x

cpu_util_without(e, cpu) ==
  IF cpu # e.p.cpu \/ e.p.last_update_time = 0 THEN cpu_util(e, cpu)
  ELSE LET util == e.cfs_util[cpu] - Min(e.cfs_util[cpu], e.task_util)
           est0 == e.util_est_enqueued[cpu]
           estimated == IF e.p.queued_or_current
                        THEN est0 - Min(est0,
                                        or_UTIL_AVG_UNCHANGED(e.p.util_est))
                        ELSE est0 IN
       Min(IF e.UTIL_EST THEN Max(util, estimated) ELSE util,
           capacity_orig_of(cpu))

\* lbt: a CPU is overutilized above OverutilRatio percent of its capacity
lbt_util_bring_overutilize(cpu, util) ==
  util * 100 > capacity_orig_of(cpu) * OverutilRatio

lbt_util_overutilized(e, cpu) ==
  lbt_util_bring_overutilize(cpu, cpu_util(e, cpu))

\* ------------------------------------------------------------ prefer perf
prefer_perf_cpu(e) ==
  IF e.prefer_perf <= 0 THEN -1 ELSE e.select_perf_cpu

\* ------------------------------------------------------------ prefer idle
\* the three marks: acc holds the locals of select_idle_cpu, the answer is
\* [acc, ret]
mark_lowest_idle_util_cpu(W, e, cpu, new_util, acc) ==
  LET idle_idx == e.idle_state_idx[cpu] IN
  IF ~idle_cpu(W, cpu) THEN [acc |-> acc, ret |-> FALSE]
  ELSE IF idle_idx > acc.lowest_idle_cstate THEN [acc |-> acc, ret |-> FALSE]
  ELSE IF idle_idx = acc.lowest_idle_cstate /\ new_util >= acc.lowest_idle_util
       THEN [acc |-> acc, ret |-> FALSE]
  ELSE [acc |-> [acc EXCEPT !.lowest_idle_util = new_util,
                            !.lowest_idle_cstate = idle_idx,
                            !.lowest_idle_cpu = cpu],
        ret |-> TRUE]

\* capacity_curr_of is that of a CPU at its full frequency
mark_highest_spare_cpu(cpu, new_util, capacity_orig, acc, boosted) ==
  LET spare_util == capacity_orig - new_util IN
  IF boosted /\ capacity_orig < acc.target_capacity
  THEN [acc |-> acc, ret |-> TRUE]
  ELSE IF ~boosted /\ capacity_orig > acc.target_capacity
       THEN [acc |-> acc, ret |-> TRUE]
  ELSE IF capacity_orig_of(cpu) < new_util THEN [acc |-> acc, ret |-> FALSE]
  ELSE IF spare_util <= acc.highest_spare_util
       THEN [acc |-> acc, ret |-> FALSE]
  ELSE [acc |-> [acc EXCEPT !.highest_spare_util = spare_util,
                            !.highest_spare_cpu = cpu,
                            !.target_capacity = capacity_orig],
        ret |-> TRUE]

mark_lowest_util_cpu(cpu, wake_util, new_util, new_util_cuml, acc) ==
  IF wake_util > acc.lowest_wake_util THEN acc
  ELSE IF new_util > acc.lowest_util THEN acc
  ELSE IF new_util = acc.lowest_util /\ new_util_cuml >= acc.lowest_util_cuml
       THEN acc
  ELSE [acc EXCEPT !.lowest_util = new_util,
                   !.lowest_wake_util = wake_util,
                   !.lowest_util_cuml = new_util_cuml,
                   !.lowest_util_cpu = cpu]

\* the answer is [cpu, state], state as trace_ems_select_idle_cpu names it
select_idle_cpu(W, e) ==
  LET boosted == e.boost > 0
      \* the body of the inner loop for CPU i of the coregroup of cpu
      body(cpu, i, acc) ==
        LET capacity_orig == capacity_orig_of(i)
            wake_util == cpu_util_without(e, i)
            new_util == Max(wake_util + e.task_util, e.min_util)
            cuml0 == cpu_util(e, cpu) + e.min_util
            new_util_cuml == IF e.in_cum_window_demand
                             THEN cuml0 - e.task_util ELSE cuml0
            idle == mark_lowest_idle_util_cpu(W, e, i, new_util, acc)
            spare == mark_highest_spare_cpu(i, new_util, capacity_orig, acc,
                                            boosted) IN
        IF lbt_util_bring_overutilize(cpu, new_util) THEN acc
        ELSE IF idle.ret THEN idle.acc
        ELSE IF spare.ret THEN spare.acc
        ELSE mark_lowest_util_cpu(i, wake_util, new_util, new_util_cuml, acc)
      RECURSIVE inner(_, _, _)
      inner(cpu, i, acc) ==
        IF i >= NFluid THEN acc
        ELSE IF i \in e.p.cpus_allowed /\ i \in cpu_coregroup_mask(cpu)
             THEN inner(cpu, i + 1, body(cpu, i, acc))
        ELSE inner(cpu, i + 1, acc)
      \* what follows the inner loop
      target(acc) ==
        IF cpu_selected(acc.lowest_idle_cpu)
        THEN [acc EXCEPT !.state = "lowest_idle_util",
                         !.target_cpu = acc.lowest_idle_cpu]
        ELSE IF cpu_selected(acc.highest_spare_cpu)
        THEN [acc EXCEPT !.state = "highest_spare_util",
                         !.target_cpu = acc.highest_spare_cpu]
        ELSE IF cpu_selected(acc.lowest_util_cpu)
        THEN [acc EXCEPT !.state = "lowest_util",
                         !.target_cpu = acc.lowest_util_cpu]
        ELSE acc
      RECURSIVE outer(_, _)
      outer(cpu, acc) ==
        IF cpu >= NFluid THEN acc
        ELSE IF ~cpu_active(W, cpu) THEN outer(cpu + 1, acc)
        ELSE IF cpu # cpumask_first(cpu_coregroup_mask(cpu))
             THEN outer(cpu + 1, acc)
        ELSE outer(cpu + 1, target(inner(cpu, 0, acc)))
      r == outer(0, [ lowest_idle_util |-> ULONG_MAX,
                      highest_spare_util |-> 0,
                      lowest_wake_util |-> ULONG_MAX,
                      lowest_util_cuml |-> ULONG_MAX,
                      lowest_util |-> ULONG_MAX,
                      target_capacity |-> IF boosted THEN 0 ELSE ULONG_MAX,
                      lowest_idle_cstate |-> INT_MAX,
                      lowest_idle_cpu |-> -1, highest_spare_cpu |-> -1,
                      lowest_util_cpu |-> -1, target_cpu |-> -1,
                      state |-> "prev_cpu" ]) IN
  IF ~cpu_selected(r.target_cpu) /\ ~lbt_util_overutilized(e, e.prev_cpu)
  THEN [cpu |-> e.prev_cpu, state |-> r.state]
  ELSE [cpu |-> r.target_cpu, state |-> r.state]

prefer_idle_cpu(W, e) ==
  IF e.prefer_idle <= 0 THEN [cpu |-> -1, state |-> "prev_cpu"]
  ELSE select_idle_cpu(W, e)

\* ------------------------------------------------------------- proper cpu
\* is_cpu_preemptible(p, prev_cpu, cpu, sync): e.top_app, e.on_top and
\* e.high_cap are the CPUs whose running task schedtune reports so; wake_cap
\* is read for a sync wake-up only
is_cpu_preemptible(W, e, prev_cpu, cpu, sync) ==
  LET skip_ux ==
        ~(sync /\ (W.rq[cpu].nr_running # 1 \/ e.wake_cap)) IN
  IF sync /\ e.boost > 0 THEN TRUE
  ELSE IF is_slowest_cpu(cpu) THEN skip_ux
  ELSE IF cpu \notin e.top_app THEN skip_ux
  ELSE IF ~e.p.queued_or_current /\ cpu \in e.on_top THEN FALSE
  ELSE IF cpu \in e.high_cap THEN FALSE
  ELSE skip_ux

\* variant: CPUs the task does not fit are not skipped
select_proper_cpu_over_capacity(W, eenv) ==
  LET prefer_idle == eenv.prefer_idle > 0
      body(cpu, i, acc) ==
        LET cpu_capacity == capacity_orig_of(cpu)
            wake_util == cpu_util_without(eenv, i)
            new_util == Max(wake_util + eenv.task_util, eenv.min_util)
            idle_idx == eenv.idle_state_idx[i] IN
        IF ~eenv.pm_freezing /\ cpu_capacity < eenv.start_cpu_cap THEN acc
        ELSE IF idle_cpu(W, i)
        THEN IF cpu_capacity = acc.target_capacity
                /\ idle_idx > acc.best_idle_cstate
             THEN acc
             ELSE IF /\ idle_idx = acc.best_idle_cstate
                     /\ cpu_capacity = acc.target_capacity
                     /\ \/ acc.best_idle_cpu = eenv.prev_cpu
                        \/ (i # eenv.prev_cpu
                            /\ new_util >= acc.best_idle_util)
             THEN acc
             ELSE [acc EXCEPT !.target_capacity = cpu_capacity,
                              !.best_idle_cstate = idle_idx,
                              !.best_idle_util = new_util,
                              !.best_idle_cpu = i]
        ELSE IF new_util > acc.best_active_util THEN acc
        ELSE [acc EXCEPT !.target_capacity = cpu_capacity,
                         !.best_active_util = new_util,
                         !.best_active_cpu = i]
      RECURSIVE inner(_, _, _)
      inner(cpu, i, acc) ==
        IF i >= NFluid THEN acc
        ELSE IF i \in eenv.p.cpus_allowed /\ i \in cpu_coregroup_mask(cpu)
             THEN inner(cpu, i + 1, body(cpu, i, acc))
        ELSE inner(cpu, i + 1, acc)
      \* what follows the inner loop
      best(acc) ==
        LET a == IF cpu_selected(acc.best_active_cpu)
                 THEN [acc EXCEPT !.best_cpu = acc.best_active_cpu] ELSE acc IN
        IF cpu_selected(a.best_idle_cpu)
           /\ (\/ prefer_idle
               \/ ~cpu_selected(a.best_cpu)
               \/ (/\ ~is_slowest_cpu(a.best_active_cpu)
                   /\ ~is_cpu_preemptible(W, eenv, -1, a.best_active_cpu,
                                          FALSE)))
        THEN [a EXCEPT !.best_cpu = a.best_idle_cpu] ELSE a
      RECURSIVE outer(_, _)
      outer(cpu, acc) ==
        IF cpu >= NFluid THEN acc
        ELSE IF ~cpu_active(W, cpu) THEN outer(cpu + 1, acc)
        ELSE IF cpu # cpumask_first(cpu_coregroup_mask(cpu))
             THEN outer(cpu + 1, acc)
        ELSE IF cpu_coregroup_mask(cpu) \cap eenv.p.cpus_allowed = {}
             THEN outer(cpu + 1, acc)
        ELSE LET a == best(inner(cpu, 0, acc)) IN
             IF cpu_selected(a.best_cpu) THEN a ELSE outer(cpu + 1, a)
      r == outer(0, [ best_active_util |-> ULONG_MAX,
                      best_idle_util |-> ULONG_MAX,
                      target_capacity |-> ULONG_MAX,
                      best_idle_cstate |-> INT_MAX,
                      best_active_cpu |-> -1, best_idle_cpu |-> -1,
                      best_cpu |-> -1 ]) IN
  IF cpu_selected(r.best_cpu) THEN r.best_cpu ELSE eenv.prev_cpu

\* eenv is e with start_cpu and start_cpu_cap filled in
select_proper_cpu(W, eenv) ==
  LET prefer_idle == eenv.prefer_idle > 0
      body(cpu, i, acc) ==
        LET cpu_capacity == capacity_orig_of(cpu)
            wake_util == cpu_util_without(eenv, i)
            new_util == Max(wake_util + eenv.task_util, eenv.min_util)
            idle_idx == eenv.idle_state_idx[i] IN
        IF ~eenv.pm_freezing /\ cpu_capacity < eenv.start_cpu_cap THEN acc
        ELSE IF new_util > capacity_orig_of(i) THEN acc
        ELSE IF idle_cpu(W, i)
        THEN IF cpu_capacity = acc.target_capacity
                /\ idle_idx > acc.best_idle_cstate
             THEN acc
             ELSE IF /\ idle_idx = acc.best_idle_cstate
                     /\ cpu_capacity = acc.target_capacity
                     /\ \/ acc.best_idle_cpu = eenv.prev_cpu
                        \/ (i # eenv.prev_cpu
                            /\ new_util >= acc.best_idle_util)
             THEN acc
             ELSE [acc EXCEPT !.target_capacity = cpu_capacity,
                              !.best_idle_cstate = idle_idx,
                              !.best_idle_util = new_util,
                              !.best_idle_cpu = i]
        ELSE IF new_util > acc.best_active_util THEN acc
        ELSE [acc EXCEPT !.target_capacity = cpu_capacity,
                         !.best_active_util = new_util,
                         !.best_active_cpu = i]
      RECURSIVE inner(_, _, _)
      inner(cpu, i, acc) ==
        IF i >= NFluid THEN acc
        ELSE IF i \in eenv.p.cpus_allowed /\ i \in cpu_coregroup_mask(cpu)
             THEN inner(cpu, i + 1, body(cpu, i, acc))
        ELSE inner(cpu, i + 1, acc)
      \* what follows the inner loop
      best(acc) ==
        LET a == IF cpu_selected(acc.best_active_cpu)
                 THEN [acc EXCEPT !.best_cpu = acc.best_active_cpu] ELSE acc IN
        IF cpu_selected(a.best_idle_cpu)
           /\ (\/ prefer_idle
               \/ ~cpu_selected(a.best_cpu)
               \/ (/\ ~is_slowest_cpu(a.best_active_cpu)
                   /\ ~is_cpu_preemptible(W, eenv, -1, a.best_active_cpu,
                                          FALSE)))
        THEN [a EXCEPT !.best_cpu = a.best_idle_cpu] ELSE a
      RECURSIVE outer(_, _)
      outer(cpu, acc) ==
        IF cpu >= NFluid THEN acc
        ELSE IF ~cpu_active(W, cpu) THEN outer(cpu + 1, acc)
        ELSE IF cpu # cpumask_first(cpu_coregroup_mask(cpu))
             THEN outer(cpu + 1, acc)
        ELSE IF cpu_coregroup_mask(cpu) \cap eenv.p.cpus_allowed = {}
             THEN outer(cpu + 1, acc)
        ELSE LET a == best(inner(cpu, 0, acc)) IN
             IF cpu_selected(a.best_cpu) THEN a ELSE outer(cpu + 1, a)
      r == outer(0, [ best_active_util |-> ULONG_MAX,
                      best_idle_util |-> ULONG_MAX,
                      target_capacity |-> ULONG_MAX,
                      best_idle_cstate |-> INT_MAX,
                      best_active_cpu |-> -1, best_idle_cpu |-> -1,
                      best_cpu |-> -1 ]) IN
  IF cpu_selected(r.best_cpu) THEN r.best_cpu ELSE eenv.prev_cpu

\* ---------------------------------------------------------- wake-up balance
start_cpu(W, e) ==
  LET start == cpumask_first(cpu_slowest_mask \cap cpu_active_mask(W))
      active_fast_mask == cpu_fastest_mask \cap cpu_active_mask(W) IN
  IF e.pm_freezing THEN start
  ELSE IF active_fast_mask # {} /\ e.p.cpus_allowed \cap active_fast_mask # {}
  THEN IF e.prefer_perf # 0 \/ e.global_boosted
       THEN cpumask_first(active_fast_mask)
       ELSE IF e.task_util * 100 >= capacity_orig_of(start) * 61
       THEN cpumask_first(active_fast_mask)
       ELSE start
  ELSE start

\* variant: the depth of the idle state is not looked at
fast_path_any_idle_state(W, eenv) ==
  /\ cpu_active(W, eenv.prev_cpu) /\ idle_cpu(W, eenv.prev_cpu)
  /\ eenv.prev_cpu \in eenv.p.cpus_allowed
  /\ eenv.start_cpu_cap = capacity_orig_of(eenv.prev_cpu)
  /\ ~lbt_util_overutilized(eenv, eenv.prev_cpu)

\* the test in front of every other strategy
fast_path(W, eenv) ==
  /\ cpu_active(W, eenv.prev_cpu) /\ idle_cpu(W, eenv.prev_cpu)
  /\ eenv.prev_cpu \in eenv.p.cpus_allowed
  /\ eenv.start_cpu_cap = capacity_orig_of(eenv.prev_cpu)
  /\ ~lbt_util_overutilized(eenv, eenv.prev_cpu)
  /\ eenv.idle_state_idx[eenv.prev_cpu] <= 1

\* the struct eco_env of exynos_wakeup_balance
eco_env(W, e) ==
  [ p |-> e.p, task_util |-> e.task_util, min_util |-> e.min_util,
    boost |-> e.boost, prefer_idle |-> e.prefer_idle,
    prefer_perf |-> e.prefer_perf, prev_cpu |-> e.prev_cpu,
    start_cpu |-> start_cpu(W, e),
    start_cpu_cap |-> capacity_orig_of(start_cpu(W, e)) ] @@ e

\* variant: the energy step is tried before the prefer-idle step
exynos_wakeup_balance_energy_first(W, e) ==
  LET eenv == eco_env(W, e)
      out(target_cpu, state) ==
        [ W |-> [W EXCEPT !.trace = {[ env |-> e, target_cpu |-> target_cpu,
                                       state |-> state ]}],
          cpu |-> target_cpu, state |-> state ]
      proper == select_proper_cpu(W, eenv) IN
  IF fast_path(W, eenv) THEN out(eenv.prev_cpu, "fast path")
  ELSE IF cpu_selected(e.select_service_cpu)
       THEN out(e.select_service_cpu, "service")
  ELSE IF cpu_selected(e.ontime_task_wakeup)
       THEN out(e.ontime_task_wakeup, "ontime migration")
  ELSE IF cpu_selected(prefer_perf_cpu(eenv))
       THEN out(prefer_perf_cpu(eenv), "prefer-perf")
  ELSE IF cpu_selected(e.global_boosting)
       THEN out(e.global_boosting, "global boosting")
  ELSE IF cpu_selected(e.select_energy_cpu)
       THEN out(e.select_energy_cpu, "energy cpu")
  ELSE IF cpu_selected(prefer_idle_cpu(W, eenv).cpu)
       THEN out(prefer_idle_cpu(W, eenv).cpu, "prefer-idle")
  ELSE out(proper, IF cpu_selected(proper) THEN "proper cpu" ELSE "fail")

\* variant: the task is counted on the target run-queue by the call itself
exynos_wakeup_balance_enqueues(W, e) ==
  LET eenv == eco_env(W, e)
      out(target_cpu, state) ==
        [ W |-> [W EXCEPT !.trace = {[ env |-> e, target_cpu |-> target_cpu,
                                       state |-> state ]},
                          !.rq[target_cpu].nr_running = @ + 1],
          cpu |-> target_cpu, state |-> state ]
      proper == select_proper_cpu(W, eenv) IN
  IF fast_path(W, eenv) THEN out(eenv.prev_cpu, "fast path")
  ELSE IF cpu_selected(e.select_service_cpu)
       THEN out(e.select_service_cpu, "service")
  ELSE IF cpu_selected(e.ontime_task_wakeup)
       THEN out(e.ontime_task_wakeup, "ontime migration")
  ELSE IF cpu_selected(prefer_perf_cpu(eenv))
       THEN out(prefer_perf_cpu(eenv), "prefer-perf")
  ELSE IF cpu_selected(e.global_boosting)
       THEN out(e.global_boosting, "global boosting")
  ELSE IF cpu_selected(prefer_idle_cpu(W, eenv).cpu)
       THEN out(prefer_idle_cpu(W, eenv).cpu, "prefer-idle")
  ELSE IF cpu_selected(e.select_energy_cpu)
       THEN out(e.select_energy_cpu, "energy cpu")
  ELSE out(proper, IF cpu_selected(proper) THEN "proper cpu" ELSE "fail")

\* exynos_wakeup_balance(p, prev_cpu, sd_flag, sync): the answer is
\* [W, cpu, state]; the call leaves in W the event trace_ems_wakeup_balance
\* records
exynos_wakeup_balance(W, e) ==
  LET eenv == eco_env(W, e)
      out(target_cpu, state) ==
        [ W |-> [W EXCEPT !.trace = {[ env |-> e, target_cpu |-> target_cpu,
                                       state |-> state ]}],
          cpu |-> target_cpu, state |-> state ]
      proper == select_proper_cpu(W, eenv) IN
  IF fast_path(W, eenv) THEN out(eenv.prev_cpu, "fast path")
  ELSE IF cpu_selected(e.select_service_cpu)
       THEN out(e.select_service_cpu, "service")
  ELSE IF cpu_selected(e.ontime_task_wakeup)
       THEN out(e.ontime_task_wakeup, "ontime migration")
  ELSE IF cpu_selected(prefer_perf_cpu(eenv))
       THEN out(prefer_perf_cpu(eenv), "prefer-perf")
  ELSE IF cpu_selected(e.global_boosting)
       THEN out(e.global_boosting, "global boosting")
  ELSE IF cpu_selected(prefer_idle_cpu(W, eenv).cpu)
       THEN out(prefer_idle_cpu(W, eenv).cpu, "prefer-idle")
  ELSE IF cpu_selected(e.select_energy_cpu)
       THEN out(e.select_energy_cpu, "energy cpu")
  ELSE out(proper, IF cpu_selected(proper) THEN "proper cpu" ELSE "fail")

\* What the wake-up balance can find outside the run-queues.  A situation:
\* the CPU the task slept on, its affinity, its utilization, which CPUs
\* carry fair-class load (EmsBusyPct percent of their capacity) and whether
\* the previous CPU sleeps deeply.  A policy: schedtune's attributes of the
\* task and of the tasks running on the fast CPU, the freezer, and the
\* answers of select_service_cpu, ontime_task_wakeup, select_perf_cpu,
\* global_boosting and select_energy_cpu.
EmsPolicies ==
  LET F == NFluid - 1
      pol(boost, idle, perf, frz, gb, ux, o) ==
        [ boost |-> boost, prefer_idle |-> idle, prefer_perf |-> perf,
          pm_freezing |-> frz, global_boosted |-> gb,
          top_app |-> ux, on_top |-> ux, high_cap |-> ux,
          select_service_cpu |-> o[1], ontime_task_wakeup |-> o[2],
          select_perf_cpu |-> o[3], global_boosting |-> o[4],
          select_energy_cpu |-> o[5] ] IN
  { pol(0, 0, 0, FALSE, FALSE, {}, <<-1, -1, -1, -1, -1>>),
    pol(0, 0, 0, FALSE, FALSE, {F}, <<-1, -1, -1, -1, -1>>),
    pol(0, 0, 0, TRUE, FALSE, {}, <<-1, -1, -1, -1, -1>>),
    pol(0, 1, 0, FALSE, FALSE, {}, <<-1, -1, -1, -1, -1>>),
    pol(1, 1, 0, FALSE, FALSE, {}, <<-1, -1, -1, -1, -1>>),
    pol(0, 0, 1, FALSE, FALSE, {}, <<-1, -1, -1, -1, -1>>),
    pol(0, 0, 1, FALSE, FALSE, {}, <<-1, -1, F, -1, -1>>),
    pol(0, 0, 0, FALSE, FALSE, {}, <<-1, -1, F, -1, -1>>),
    pol(0, 0, 0, FALSE, TRUE, {}, <<-1, -1, -1, F, -1>>),
    pol(0, 0, 0, FALSE, FALSE, {}, <<F, -1, -1, -1, -1>>),
    pol(0, 0, 0, FALSE, FALSE, {}, <<-1, F, -1, -1, -1>>),
    pol(0, 0, 0, FALSE, FALSE, {}, <<-1, -1, -1, -1, 1>>),
    pol(0, 1, 0, FALSE, FALSE, {}, <<-1, -1, -1, -1, 1>>),
    pol(0, 1, 0, FALSE, TRUE, {}, <<-1, -1, -1, 0, 1>>),
    pol(0, 1, 1, FALSE, TRUE, {}, <<-1, -1, F, 0, 1>>),
    pol(0, 1, 1, FALSE, TRUE, {}, <<-1, 1, F, 0, 1>>),
    pol(0, 1, 1, FALSE, TRUE, {}, <<0, 1, F, 0, 1>>) }

EmsEnvs ==
  { [ p |-> [ cpu |-> sit[1], cpus_allowed |-> sit[2],
              last_update_time |-> 1, util_est |-> util,
              queued_or_current |-> FALSE ],
      prev_cpu |-> sit[1], task_util |-> util, min_util |-> util,
      cfs_util |-> [c \in FCPUS |->
                      IF c \in busy
                      THEN (capacity_orig_of(c) * EmsBusyPct) \div 100
                      ELSE 0],
      util_est_enqueued |-> [c \in FCPUS |-> 0], UTIL_EST |-> TRUE,
      idle_state_idx |-> [c \in FCPUS |-> IF c = sit[1] /\ deep THEN 2 ELSE 0],
      in_cum_window_demand |-> FALSE, wake_cap |-> FALSE ] @@ pol :
      sit \in {<<0, FCPUS>>, <<0, FCPUS \ {0}>>, <<1, FCPUS>>,
                <<NFluid - 1, FCPUS>>},
      util \in {EmsSmall, EmsBig},
      busy \in {{}, FCPUS, {0}, FCPUS \ {0}},
      deep \in BOOLEAN, pol \in EmsPolicies }

\* select_task_rq_fair of a waking fair task: the wake-up balance runs and
\* leaves its trace event, which the next operation clears
EmsWakeUp ==
  /\ trace = {}
  /\ \E e \in EmsEnvs : Set(exynos_wakeup_balance(World, e).W)

NextEms ==
  \/ EmsWakeUp
  \/ \E p \in {"t1", "t2"}, cpu \in FCPUS : WakeUp(p, cpu, FALSE)
  \/ \E c \in {0, NFluid - 1} : CpuDown(c)
  \/ \E c \in {0, NFluid - 1} : CpuUp(c)

\* every real-time task is a light one
InitEms == InitFluid /\ task["t3"].avg = task["t1"].avg

SpecEms == InitEms /\ [][NextEms]_vars

\* ------------------------------------------------------------------- C22
\* the answers of the eight steps for e, in the order of the code, and the
\* names trace_ems_wakeup_balance gives them
EmsAnswers(e) ==
  LET eenv == eco_env(World, e) IN
  << IF fast_path(World, eenv) THEN e.prev_cpu ELSE -1,
     e.select_service_cpu, e.ontime_task_wakeup, prefer_perf_cpu(eenv),
     e.global_boosting, prefer_idle_cpu(World, eenv).cpu,
     e.select_energy_cpu, select_proper_cpu(World, eenv) >>

EmsNames ==
  << "fast path", "service", "ontime migration", "prefer-perf",
     "global boosting", "prefer-idle", "energy cpu", "proper cpu" >>

FastPathCase(e) ==
  /\ rq[e.prev_cpu].online
  /\ rq[e.prev_cpu].curr = IDLE /\ rq[e.prev_cpu].nr_running = 0
  /\ e.prev_cpu \in e.p.cpus_allowed
  /\ capacity_orig_of(e.prev_cpu) = capacity_orig_of(start_cpu(World, e))
  /\ e.idle_state_idx[e.prev_cpu] <= 1

\* the statement as made: the fast path is taken exactly when these hold and
\* no CPU of the system is overutilized
C23_AsStated ==
  \A ev \in trace :
    LET e == ev.env IN
    (ev.state = "fast path")
      <=> (FastPathCase(e) /\ \A c \in FCPUS : ~lbt_util_overutilized(e, c))

\* C23: exynos_wakeup_balance takes the fast path exactly when the previous
\* CPU is active, idle, allowed, of the same maximum capacity as the start
\* CPU, in an idle state of index 1 at most, and is not itself overutilized;
\* it then answers the previous CPU whatever the other steps have to offer.
C23_FastPath ==
  \A ev \in trace :
    LET e == ev.env IN
    /\ (ev.state = "fast path")
         <=> (FastPathCase(e) /\ ~lbt_util_overutilized(e, e.prev_cpu))
    /\ ev.state = "fast path" => ev.target_cpu = e.prev_cpu

\* the fast path has kept the task on its previous CPU although the service
\* step had another CPU to offer and another CPU is overutilized
C23_Witness ==
  \E ev \in trace :
    /\ ev.state = "fast path"
    /\ cpu_selected(ev.env.select_service_cpu)
    /\ ev.env.select_service_cpu # ev.target_cpu
    /\ \E c \in FCPUS : lbt_util_overutilized(ev.env, c)

\* ------------------------------------------------------------------- C24
\* the utilization select_idle_cpu projects for the task on cpu
EmsNewUtil(e, cpu) == Max(cpu_util_without(e, cpu) + e.task_util, e.min_util)

\* cpu is allowed, active and idle, and the task would not overutilize it
IdleFit(e, cpu) ==
  /\ cpu \in e.p.cpus_allowed /\ rq[cpu].online
  /\ rq[cpu].curr = IDLE /\ rq[cpu].nr_running = 0
  /\ ~lbt_util_bring_overutilize(cpu, EmsNewUtil(e, cpu))

\* C24: for a task with the prefer-idle attribute, whenever some allowed,
\* active CPU is idle and the task would not overutilize it, select_idle_cpu
\* answers such a CPU, with state "lowest_idle_util": one in the shallowest
\* idle state among them and, among those, of the lowest projected
\* utilization, whatever the busy CPUs offer and whichever coregroup it is in.
C24_PreferIdle ==
  \A ev \in trace :
    LET e == ev.env
        r == select_idle_cpu(World, eco_env(World, e)) IN
    (e.prefer_idle > 0 /\ \E c \in FCPUS : IdleFit(e, c))
    => /\ r.cpu \in FCPUS /\ IdleFit(e, r.cpu)
       /\ r.state = "lowest_idle_util"
       /\ \A d \in FCPUS :
            IdleFit(e, d)
            => \/ e.idle_state_idx[r.cpu] < e.idle_state_idx[d]
               \/ /\ e.idle_state_idx[r.cpu] = e.idle_state_idx[d]
                  /\ EmsNewUtil(e, r.cpu) <= EmsNewUtil(e, d)

\* ------------------------------------------------------------------- C25
\* the task is allowed on cpu and its projected utilization there does not
\* exceed the CPU's original capacity
ProperFit(e, cpu) ==
  /\ cpu \in e.p.cpus_allowed
  /\ EmsNewUtil(e, cpu) <= capacity_orig_of(cpu)

\* the coregroups select_proper_cpu visits, by their first CPU
ProperGroups(e) ==
  {g \in FCPUS : /\ rq[g].online
                 /\ \A c \in cpu_coregroup_mask(g) : g <= c
                 /\ cpu_coregroup_mask(g) \cap e.p.cpus_allowed # {}}

\* the statement as made: the first visited coregroup with a CPU that fits
C25_AsStated ==
  \A ev \in trace :
    LET e == ev.env
        r == select_proper_cpu(World, eco_env(World, e))
        fit == {g \in ProperGroups(e) :
                  \E c \in cpu_coregroup_mask(g) : ProperFit(e, c)} IN
    IF fit = {} THEN r = e.prev_cpu
    ELSE /\ r \in cpu_coregroup_mask(CHOOSE g \in fit : \A h \in fit : g <= h)
         /\ ProperFit(e, r)

\* the coregroup of g is not below the capacity of the start CPU, or the
\* system is freezing
ProperEligible(e, g) ==
  e.pm_freezing
  \/ capacity_orig_of(g) >= capacity_orig_of(start_cpu(World, e))

\* C25: select_proper_cpu answers a CPU of the first visited coregroup that
\* is not of lower capacity than the start CPU (any coregroup while the
\* system is freezing) and contains an allowed CPU on which the task's
\* projected utilization does not exceed the CPU's original capacity; the
\* CPU it answers fits in that way; when no such coregroup exists it answers
\* the previous CPU.
C25_ProperCpu ==
  \A ev \in trace :
    LET e == ev.env
        r == select_proper_cpu(World, eco_env(World, e))
        fit == {g \in ProperGroups(e) :
                  /\ ProperEligible(e, g)
                  /\ \E c \in cpu_coregroup_mask(g) : ProperFit(e, c)} IN
    IF fit = {} THEN r = e.prev_cpu
    ELSE /\ r \in cpu_coregroup_mask(CHOOSE g \in fit : \A h \in fit : g <= h)
         /\ ProperFit(e, r)

\* the proper-cpu step has placed a heavy task on the fast CPU although an
\* allowed CPU of the slow coregroup would have held it
C25_Witness ==
  \E ev \in trace :
    /\ ev.state = "proper cpu" /\ ~is_slowest_cpu(ev.target_cpu)
    /\ \E c \in FCPUS : is_slowest_cpu(c) /\ rq[0].online /\ ProperFit(ev.env, c)

SysctlPeriods == {-1, 0, GlobalPeriod}
SysctlRuntimes == {0, GlobalRuntime, GlobalPeriod + 1, RUNTIME_INF}

SysctlWrite(period, runtime) ==
  /\ period \in SysctlPeriods /\ runtime \in SysctlRuntimes
  /\ LET r == sched_rt_handler(World, period, runtime) IN
     Set([r.W EXCEPT !.trace =
            {[period |-> period, runtime |-> runtime, ret |-> r.ret,
              sysctl_sched_rt_period |-> r.sysctl_sched_rt_period,
              sysctl_sched_rt_runtime |-> r.sysctl_sched_rt_runtime]}])

NextSysctl ==
  \/ \E cpu \in CPUS : WakeUp("t1", cpu, FALSE)
  \/ \E c \in CPUS, sleep \in BOOLEAN : Schedule(c, sleep)
  \/ \E c \in CPUS : Tick(c)
  \/ PeriodTimer
  \/ \E period \in SysctlPeriods, runtime \in SysctlRuntimes :
        SysctlWrite(period, runtime)

SpecSysctl == InitBandwidth /\ [][NextSysctl]_vars

SysctlInvalid(ev) ==
  \/ ev.period <= 0
  \/ ev.runtime # RUNTIME_INF /\ ev.runtime > ev.period

\* C27: a write through sched_rt_handler that leaves period <= 0, or runtime
\* above period while runtime is not RUNTIME_INF, returns an error, and after
\* it the two sysctl values, def_rt_bandwidth and the rt_runtime of every
\* run-queue are what they were before the write.
C27_InvalidWriteUndone ==
  [][\A ev \in trace' :
       SysctlInvalid(ev) =>
         /\ ev.ret = -EINVAL
         /\ ev.sysctl_sched_rt_period = bw.rt_period
         /\ ev.sysctl_sched_rt_runtime = bw.rt_runtime
         /\ bw' = bw
         /\ \A c \in CPUS : rq'[c].rt.rt_runtime = rq[c].rt.rt_runtime]_vars

\* an invalid write was rejected on a system where a run-queue's quota
\* differs from the global one, and a valid one was accepted
C27_Witness ==
  \E ev \in trace :
     /\ SysctlInvalid(ev) /\ ev.ret = -EINVAL
     /\ ev.runtime = GlobalPeriod + 1 /\ ev.period = GlobalPeriod
     /\ \E c \in CPUS : rq[c].rt.rt_runtime # bw.rt_runtime

\* ------------------------------------------------------------------
\* Forward progress of push.
\* CPU e takes a step of the push it runs
PushStep(e) == pc[e].op \in PushOps /\ pc'[e] # pc[e]

\* the tasks queued on run-queue c that the step takes off it
LeaveRq(c) ==
  {p \in TASKS : /\ task[p].cpu = c /\ task[p].on_rq = 1
                 /\ ~(task'[p].cpu = c /\ task'[p].on_rq = 1)}

\* a step of another CPU changes the pushable list of the run-queue e pushes
\* from
PushableChanged(e) ==
  /\ pc[e].op \in PushOps /\ pc'[e] = pc[e]
  /\ rq'[pc[e].rq].rt.pushable_tasks # rq[pc[e].rq].rt.pushable_tasks

\* C28: forward progress of push.  A call of find_lock_lowest_rq probes at
\* most RT_MAX_TRIES times (a probe is the tries + 1st of its call); a step of
\* push_rt_task either is the commit, which takes exactly next_task off the
\* run-queue and queues it on lowest_rq, or takes no task off the run-queue;
\* and push_rt_tasks ends unless other CPUs change the pushable list of the
\* run-queue again and again.
C28_PushProgress ==
  /\ [](\A e \in CPUS :
          /\ pc[e].tries <= RT_MAX_TRIES
          /\ pc[e].step = "probe" => pc[e].tries < RT_MAX_TRIES)
  /\ [][\A e \in CPUS :
          PushStep(e) =>
            IF pc[e].step = "locked" /\ pc'[e].out = "commit"
            THEN /\ LeaveRq(pc[e].rq) = {pc[e].task}
                 /\ task'[pc[e].task].cpu = pc[e].other
                 /\ task'[pc[e].task].on_rq = 1
            ELSE LeaveRq(pc[e].rq) = {}]_vars
  /\ \A e \in CPUS :
       \/ []<>(pc[e].op \notin PushOps)
       \/ []<><<PushableChanged(e)>>_vars

\* a push is about to probe for the third time in one call of
\* find_lock_lowest_rq
C28_Witness ==
  \E e \in CPUS :
    /\ pc[e].op \in PushOps /\ pc[e].step = "probe"
    /\ pc[e].tries = RT_MAX_TRIES - 1

\* ------------------------------------------------------------------
\* The pick.
\* the priorities whose list on run-queue c holds a task, read off the lists
NonEmptyPrios(W, c) ==
  {i \in 0 .. (MAX_RT_PRIO - 1) : W.rq[c].rt.active.queue[i] # << >>}

\* the state in which __schedule on CPU c calls _pick_next_task_rt: prev has
\* been deactivated when it sleeps, and pull_rt_task has run when it is due
PickState(c, sleep) ==
  LET W1 == schedule_deactivate(World, c, sleep) IN
  IF need_pull_rt_task(W1, c, rq[c].curr) THEN pull_rt_task(W1, c) ELSE W1

\* what pick_next_task_rt answers in that state
Picked(c, sleep) ==
  pick_next_task_rt_update(PickState(c, sleep), c, rq[c].curr)

\* C29: whenever pick_next_task_rt returns a task, it is the head of the
\* non-empty priority list with the lowest priority number on that run-queue
\* (so tasks of equal priority are served in list order), and the BUG_ON of
\* pick_next_rt_entity does not fire: a run-queue with rt_queued = 1 has a
\* task queued and its lowest set bitmap bit is below MAX_RT_PRIO.
C29_PickHighest ==
  \A c \in CPUS :
    /\ rq[c].rt.rt_queued = 1 =>
         /\ NonEmptyPrios(World, c) # {}
         /\ sched_find_first_bit(rq[c].rt.active.bitmap) < MAX_RT_PRIO
    /\ \A sleep \in BOOLEAN :
         LET V == PickState(c, sleep)
             r == Picked(c, sleep)
         IN /\ "pick_no_entity" \notin r.W.bug
            /\ r.p # NULL =>
                 /\ NonEmptyPrios(V, c) # {}
                 /\ \A i \in NonEmptyPrios(V, c) : prio_of(V, r.p) <= i
                 /\ r.p = Head(V.rq[c].rt.active.queue[prio_of(V, r.p)])

\* a pick on a run-queue that holds two tasks of one priority and a third of
\* a lower one
C29_Witness ==
  \E c \in CPUS :
    /\ Picked(c, FALSE).p # NULL
    /\ Cardinality(NonEmptyPrios(World, c)) = 2
    /\ \E i \in NonEmptyPrios(World, c) : Len(rq[c].rt.active.queue[i]) = 2

\* ------------------------------------------------------------------
\* Priority changes among the pushes and pulls.
\* sched_setscheduler by CPU e: t1 stays in the real-time class and gets
\* another priority, queued, running or asleep
MigSetPrio(e, p, prio) ==
  /\ pc[e].op = "idle" /\ lock[task[p].cpu] = -1
  /\ task[p].class = "rt" /\ prio # task[p].prio
  /\ SetMachine(mig_unlock_callback(
       [Machine EXCEPT !.W = sched_setscheduler(World, p, "rt", prio)],
       e, task[p].cpu))

NextPrio ==
  \/ \E e \in CPUS, p \in TASKS, cpu \in CPUS, sync \in BOOLEAN :
        MigWakeUp(e, p, cpu, sync)
  \/ \E c \in CPUS, sleep \in BOOLEAN : MigSchedule(c, sleep)
  \/ \E e \in CPUS : MigBalanceCallback(e)
  \/ \E e \in CPUS, cpu \in CPUS \cup {-1} : MigFindLowestRq(e, cpu)
  \/ \E e \in CPUS : MigDoubleLockBalance(e)
  \/ \E e \in CPUS : MigDoubleRqLockFirst(e)
  \/ \E e \in CPUS : MigDoubleRqLockSecond(e)
  \/ \E e \in CPUS : MigLocked(e)
  \/ \E e \in CPUS : MigDoubleUnlockBalance(e)
  \/ \E e \in CPUS, prio \in {InitPrio("t1"), LowPrio} :
        MigSetPrio(e, "t1", prio)

SpecPrio == InitMig /\ [][NextPrio]_vars

\* a real-time task queued on CPU c, not the running one, has a strictly
\* higher priority than the task running there
HigherQueued(c) ==
  \E q \in TASKS :
     /\ task[q].cpu = c /\ task[q].on_rq = 1 /\ task[q].class = "rt"
     /\ q # rq[c].curr
     /\ prio_of(World, q) < prio_of(World, rq[c].curr)

\* a pull (of __schedule or of a balance callback) is in progress on rq c
PullInProgress(c) == \E e \in CPUS : pc[e].op \in PullOps /\ pc[e].rq = c

\* C30: no missed reschedule: whenever the lock of a run-queue is free and no
\* pull onto it is in progress (so every wake-up, push, pull and priority
\* change that touched it is over), a queued task of strictly higher priority
\* than the running one means resched_curr has been called for that CPU.
C30_NoMissedResched ==
  \A c \in CPUS :
    (lock[c] = -1 /\ ~PullInProgress(c) /\ HigherQueued(c))
      => rq[c].need_resched

\* t1 runs with the lowered priority while t3 waits on its run-queue, and
\* the reschedule has been requested
C30_Witness ==
  \E c \in CPUS :
    /\ lock[c] = -1 /\ ~PullInProgress(c)
    /\ rq[c].curr = "t1" /\ task["t1"].prio = LowPrio
    /\ task["t3"].cpu = c /\ task["t3"].on_rq = 1
    /\ rq[c].need_resched

\* ------------------------------------------------------------------
\* Runtime sharing while run-queues go offline and come back.
\* do_balance_runtime, __disable_runtime and __enable_runtime all run under
\* rt_b->rt_runtime_lock from their first access to their last, so each is
\* one step.
NextRuntime ==
  \/ \E cpu \in CPUS : WakeUp("t1", cpu, FALSE)
  \/ \E c \in CPUS, sleep \in BOOLEAN : Schedule(c, sleep)
  \/ \E c \in CPUS : Tick(c)
  \/ PeriodTimer
  \/ \E c \in CPUS : CpuDown(c)
  \/ \E c \in CPUS : CpuUp(c)

SpecRuntime == InitBandwidth /\ [][NextRuntime]_vars

\* the run-queues that are not disabled
RuntimeEnabled == {c \in CPUS : rq[c].rt.rt_runtime # RUNTIME_INF}

RECURSIVE SumRuntime(_)
SumRuntime(S) ==
  IF S = {} THEN 0
  ELSE LET c == CHOOSE x \in S : TRUE
       IN rq[c].rt.rt_runtime + SumRuntime(S \ {c})

\* C31: no runtime leaks: the rt_runtime of the run-queues that are not
\* disabled adds up to their number times the rt_runtime of the group, so a
\* run-queue that goes offline takes back exactly what it lent or hands back
\* exactly what it borrowed, and BUG_ON(want) in __disable_runtime does not
\* fire.
C31_NoRuntimeLeak ==
  /\ SumRuntime(RuntimeEnabled) = Cardinality(RuntimeEnabled) * bw.rt_runtime
  /\ "disable_runtime_want" \notin bug

\* a run-queue is disabled while the other one is not, after a loan (the
\* rt_time of the remaining run-queue is above the quota of the group)
C31_Witness ==
  \E c \in CPUS, d \in CPUS :
    /\ rq[c].rt.rt_runtime = RUNTIME_INF /\ ~rq[c].online
    /\ rq[d].rt.rt_runtime = bw.rt_runtime
    /\ rq[d].rt.rt_time > bw.rt_runtime

\* ------------------------------------------------------------------
\* One run-queue per runnable task.
\* the places <<priority, position>> of the priority lists of run-queue c
Slots(c) ==
  UNION {{<<i, k>> : k \in 1 .. Len(rq[c].rt.active.queue[i])} :
           i \in 0 .. (MAX_RT_PRIO - 1)}

\* the places of run-queue c that hold task p
OnLists(c, p) == {s \in Slots(c) : rq[c].rt.active.queue[s[1]][s[2]] = p}

RECURSIVE SumNrRunning(_)
SumNrRunning(S) ==
  IF S = {} THEN 0
  ELSE LET c == CHOOSE x \in S : TRUE
       IN rq[c].rt.rt_nr_running + SumNrRunning(S \ {c})

\* C32: under every interleaving of wake-ups, schedules, pushes and pulls on
\* the CPUs, a runnable real-time task is on exactly one priority list, the
\* one of its priority on the run-queue of its task CPU, and a task that is
\* not runnable is on none; rt_nr_running of a run-queue is the number of
\* tasks on its lists; and the locked section of a push or pull runs with
\* both locks held and leaves the total of rt_nr_running unchanged.
C32_OneRunQueue ==
  /\ [](\A c \in CPUS :
          /\ rq[c].rt.rt_nr_running = Cardinality(Slots(c))
          /\ \A p \in TASKS :
               /\ Cardinality(OnLists(c, p)) =
                    IF /\ task[p].on_rq = 1 /\ task[p].class = "rt"
                       /\ task[p].cpu = c
                    THEN 1 ELSE 0
               /\ \A s \in OnLists(c, p) : s[1] = task[p].prio)
  /\ [][\A e \in CPUS :
          (pc[e].step = "locked" /\ pc'[e] # pc[e]) =>
             /\ lock[pc[e].rq] = e /\ lock[pc[e].other] = e
             /\ SumNrRunning(CPUS)' = SumNrRunning(CPUS)]_vars

\* a push has just moved its task: the task is on the lists of lowest_rq, and
\* the lock of lowest_rq is still held
C32_Witness ==
  \E e \in CPUS :
    /\ pc[e].step = "unlock" /\ pc[e].out = "commit"
    /\ task[pc[e].task].cpu = pc[e].other
    /\ Cardinality(OnLists(pc[e].other, pc[e].task)) = 1

\* ------------------------------------------------------------------
\* The period timer handler, one lock section at a time.
\* sched_rt_period_timer holds rt_b->rt_runtime_lock around
\* hrtimer_forward_now and around the write of rt_period_active, and drops it
\* for do_sched_rt_period_timer.  pc[e] of the CPU e that runs the handler is
\* op "timer", step "finish" from the return of do_sched_rt_period_timer to
\* the next lock section, with its local idle in out ("idle" / "busy").
InTimer(e) == pc[e].op = "timer"

TimerReturn(W, e, idle) ==
  /\ SetWorld(W)
  /\ pc' = [pc EXCEPT ![e] = [NoOp EXCEPT !.op = "timer", !.step = "finish",
                                          !.out = IF idle # 0 THEN "idle"
                                                  ELSE "busy"]]
  /\ UNCHANGED lock

\* the timer expires on CPU e: hrtimer_forward_now reports overrun > 0 and
\* do_sched_rt_period_timer runs
TimerExpire(e) ==
  /\ \A f \in CPUS : pc[f].op = "idle"
  /\ bw.rt_period_active = 1
  /\ \E overrun \in 1 .. MaxOverrun :
        TimerReturn(do_sched_rt_period_timer(World, overrun).W, e,
                    do_sched_rt_period_timer(World, overrun).idle)

\* back in the for (;;) loop another period has gone by
TimerAgain(e) ==
  /\ InTimer(e)
  /\ \E overrun \in 1 .. MaxOverrun :
        TimerReturn(do_sched_rt_period_timer(World, overrun).W, e,
                    do_sched_rt_period_timer(World, overrun).idle)

\* hrtimer_forward_now reports no overrun: if (idle) rt_period_active = 0
TimerFinish(e) ==
  /\ InTimer(e)
  /\ SetWorld(IF pc[e].out = "idle"
              THEN [World EXCEPT !.bw.rt_period_active = 0] ELSE World)
  /\ pc' = [pc EXCEPT ![e] = NoOp]
  /\ UNCHANGED lock

\* the handler runs in interrupt context: its CPU does nothing else meanwhile
NextTimer ==
  \/ \E cpu \in CPUS : WakeUp("t1", cpu, FALSE)
  \/ \E c \in CPUS, sleep \in BOOLEAN : ~InTimer(c) /\ Schedule(c, sleep)
  \/ \E c \in CPUS : ~InTimer(c) /\ Tick(c)
  \/ \E e \in CPUS : TimerExpire(e)
  \/ \E e \in CPUS : TimerAgain(e)
  \/ \E e \in CPUS : TimerFinish(e)

SpecTimer == InitBandwidth /\ [][NextTimer]_vars

\* C33: once the handler of the period timer and every enqueue have
\* completed, the timer is armed (rt_period_active = 1) whenever the
\* bandwidth is finite and some run-queue has a queued real-time task or
\* rt_time left.
C33_TimerArmed ==
  ( /\ \A e \in CPUS : ~InTimer(e)
    /\ bw.rt_runtime # RUNTIME_INF
    /\ \E c \in CPUS : rq[c].rt.rt_nr_running # 0 \/ rq[c].rt.rt_time # 0 )
  => bw.rt_period_active = 1

\* ------------------------------------------------------------------
\* The overload mask while run-queues leave and join the root domain.
\* set_rq_offline and set_rq_online as rq_attach_root and sched_cpu_dying call
\* them: with tasks still queued on the run-queue
RqOffline(c) ==
  /\ rq[c].online
  /\ Set([rq_offline_rt(World, c) EXCEPT !.rq[c].online = FALSE])

RqOnline(c) ==
  /\ ~rq[c].online
  /\ Set(rq_online_rt([World EXCEPT !.rq[c].online = TRUE], c))

NextOverload ==
  \/ \E p \in TASKS, cpu \in CPUS, sync \in BOOLEAN : WakeUp(p, cpu, sync)
  \/ \E c \in CPUS, sleep \in BOOLEAN : Schedule(c, sleep)
  \/ \E p \in TASKS, m \in {CPUS, {0}, {1}} : SetAffinity(p, m)
  \/ \E c \in CPUS : RqOffline(c)
  \/ \E c \in CPUS : RqOnline(c)

SpecOverload == Init /\ [][NextOverload]_vars

\* C34: the bit of a run-queue in rto_mask is set exactly when the run-queue
\* is online and its overloaded flag is 1, and rto_count is the number of
\* bits set in rto_mask.
C34_OverloadMask ==
  /\ \A c \in CPUS :
       c \in rd.rto_mask <=> (rq[c].online /\ rq[c].rt.overloaded = 1)
  /\ rd.rto_count = Cardinality(rd.rto_mask)

\* an overloaded run-queue has gone offline: its flag is 1, its bit is clear
\* and rto_count is 0
C34_Witness ==
  \E c \in CPUS :
    /\ ~rq[c].online /\ rq[c].rt.overloaded = 1
    /\ c \notin rd.rto_mask /\ rd.rto_count = 0

\* ------------------------------------------------------------------
\* The cached priority summary.
\* the smallest member of a set of priorities, MAX_RT_PRIO when it is empty
MinPrio(S) ==
  IF S = {} THEN MAX_RT_PRIO ELSE CHOOSE x \in S : \A y \in S : x <= y

\* C35: in every reachable state, also between the lock steps of a push or
\* pull, highest_prio.curr of a run-queue is the smallest priority number
\* among the tasks on its priority lists (MAX_RT_PRIO when there is none) and
\* highest_prio.next is the priority of the first task of its pushable list
\* (MAX_RT_PRIO when the list is empty), which no other pushable task beats.
C35_PrioSummary ==
  \A c \in CPUS :
    /\ rq[c].rt.highest_prio.curr = MinPrio(NonEmptyPrios(World, c))
    /\ rq[c].rt.highest_prio.next =
         MinPrio({prio_of(World, rq[c].rt.pushable_tasks[i]) :
                    i \in 1 .. Len(rq[c].rt.pushable_tasks)})
    /\ rq[c].rt.pushable_tasks # << >> =>
         rq[c].rt.highest_prio.next =
           prio_of(World, Head(rq[c].rt.pushable_tasks))

\* a run-queue whose highest task (priority LowPrio after the change) is
\* running and whose pushable list starts with a task of lower priority than
\* another run-queue's highest one
C35_Witness ==
  \E c \in CPUS :
    /\ rq[c].rt.highest_prio.curr < rq[c].rt.highest_prio.next
    /\ rq[c].rt.highest_prio.next < MAX_RT_PRIO
    /\ task["t1"].prio = LowPrio /\ task["t1"].on_rq = 1

\* ------------------------------------------------------------------
\* The end of an IPI relay.
\* the root-domain references held for the relay: one travels with the
\* pending irq work and is held by the CPU that runs rto_push_irq_work_func
\* until it queues the work again or calls sched_put_rd
RelayRefs ==
  Cardinality({e \in RCPUS : pc[e].op = "irq"})
    + (IF rd.rto_push_work # -1 THEN 1 ELSE 0)

\* rto_cpu moves to the next CPU of rto_mask above it, or to -1 when the mask
\* has none
RelayOrder ==
  rd'.rto_cpu # rd.rto_cpu =>
    IF rd'.rto_cpu = -1
    THEN \A c \in rd.rto_mask : c <= rd.rto_cpu
    ELSE /\ rd'.rto_cpu \in rd.rto_mask
         /\ rd'.rto_cpu > rd.rto_cpu
         /\ \A c \in rd.rto_mask : c > rd.rto_cpu => rd'.rto_cpu <= c

\* the irq work runs on the CPU rto_cpu has reached
RelayVisit ==
  \A e \in RCPUS :
    (pc[e].op # "irq" /\ pc'[e].op = "irq") => rd.rto_cpu = e

\* rto_next_cpu leaves its loop with -1
RelayFinish ==
  (\E e \in RCPUS : pc[e].step = "check" /\ pc'[e].step = "unlock") =>
     /\ rd'.rto_cpu = -1
     /\ rd'.rto_loop = rd'.rto_loop_next

\* sched_put_rd is called by a CPU that ends the relay it carried, and the
\* count goes down by one
RelayPut ==
  rd'.refcount < rd.refcount =>
    /\ rd'.refcount = rd.refcount - 1
    /\ \E e \in RCPUS : /\ pc[e].op = "irq" /\ pc[e].step = "queue"
                        /\ pc[e].other = -1 /\ pc'[e].op = "idle"

RelayEnded ==
  /\ InFlight = 0
  /\ rd.rto_cpu = -1
  /\ rd.rto_loop = rd.rto_loop_next
  /\ \E e \in RCPUS : pc[e].op = "irq" /\ pc[e].step = "unlock"

\* C36: a relay that is started ends.  rto_cpu only moves to the next CPU of
\* rto_mask in increasing order and the CPU it reaches runs the irq work;
\* rto_next_cpu returns -1 only with rto_cpu = -1 and rto_loop equal to
\* rto_loop_next; the reference count is the number of relays in progress
\* past sched_get_rd, so the reference taken at the start is dropped exactly
\* once, by the CPU that ends the relay; a relay in flight when the last
\* increment of rto_loop_next has been made (the counter is at MaxLoop)
\* reaches that end, and once the counter stays as it is the relay stops for
\* good with no reference left, whether or not rto_mask changes meanwhile.
C36_RelayEnds ==
  /\ [](rd.refcount = RelayRefs)
  /\ [][RelayOrder /\ RelayVisit /\ RelayFinish /\ RelayPut]_vars
  /\ (InFlight > 0 /\ rd.rto_loop_next = MaxLoop) ~> RelayEnded
  /\ <>[][rd'.rto_loop_next = rd.rto_loop_next]_vars
       => <>[](InFlight = 0 /\ rd.rto_cpu = -1 /\ rd.refcount = 0)

\* the CPU that carries the relay has got -1 from rto_next_cpu after a pass
\* over two overloaded CPUs and a second pass caused by a counter increment,
\* and still holds the reference it is about to drop
C36_Witness ==
  \E e \in RCPUS :
    /\ pc[e].op = "irq" /\ pc[e].step = "queue" /\ pc[e].other = -1
    /\ rd.refcount = 1
    /\ rd.rto_loop >= 2
    /\ Cardinality(rd.rto_mask) >= 2

\* ------------------------------------------------------------------
\* Runtime borrowing among three CPUs.  Each task is pinned to a CPU of its
\* own, so nothing migrates; the quota is large enough for 1/weight of a
\* peer's spare time to overshoot the period.
BorrowPeriod == 8
BorrowRuntime == 6
BorrowMaxTime == 10           \* cap on rt_time (guards only)
BorrowDelta == 5              \* delta_exec of one accounting step
BorrowOffCpu == 1             \* the CPU that is taken offline

BorrowCpu(t) == IF t = "t1" THEN 0 ELSE IF t = "t2" THEN 1 ELSE NRelay - 1

InitBorrow ==
  /\ rq = [c \in RCPUS |-> InitRq(BorrowRuntime)]
  /\ task = [t \in TASKS |->
               [InitTask(t) EXCEPT !.cpus_allowed = {BorrowCpu(t)},
                                   !.cpu = BorrowCpu(t), !.policy = "FIFO"]]
  /\ rd = InitRd
  /\ bw = [InitBw(BorrowRuntime) EXCEPT !.rt_period = BorrowPeriod]
  /\ feat = [RT_RUNTIME_SHARE |-> TRUE, RT_PUSH_IPI |-> FALSE,
             PREEMPT |-> FALSE]
  /\ bug = {}
  /\ lend = {}
  /\ over = {}
  /\ trace = {}
  /\ lock = [c \in RCPUS |-> -1]
  /\ pc = [e \in RCPUS |-> NoOp]

\* the three tasks are woken one after the other before the accounting starts
BorrowWake(p) ==
  /\ \A t \in TASKS : BorrowCpu(t) < BorrowCpu(p) => task[t].on_cpu
  /\ rq[BorrowCpu(p)].rt.rt_time = 0
  /\ WakeUp(p, BorrowCpu(p), FALSE)

Woken == \A t \in TASKS : task[t].on_rq = 1

\* schedule() right after an update of the running task's accounting
BorrowSchedule(c) ==
  /\ rq[c].need_resched
  /\ \E probe \in Probes(World, c, QueuedOn(c)) :
        Set(schedule(Clocked(c, 0), c, FALSE, probe))

\* the tick of a CPU that has no reschedule pending
BorrowTick(c) ==
  /\ Woken
  /\ curr_is_rt(World, c) /\ ~rq[c].need_resched
  /\ rq[c].rt.rt_time + BorrowDelta <= BorrowMaxTime
  /\ Set(task_tick_rt(Clocked(c, BorrowDelta), c, rq[c].curr))

\* a period boundary at which some run-queue is throttled
BorrowTimer ==
  /\ Woken
  /\ bw.rt_period_active = 1
  /\ \E c \in RCPUS : rq[c].rt.rt_throttled # 0
  /\ Set(sched_rt_period_timer(World, 1))

\* set_rq_offline of one CPU at a time, also while its task runs (a
\* root-domain rebuild)
BorrowOffline(c) ==
  /\ Woken
  /\ \A d \in RCPUS : rq[d].online
  /\ Set([rq_offline_rt(World, c) EXCEPT !.rq[c].online = FALSE])

NextBorrow ==
  \/ \E p \in TASKS : BorrowWake(p)
  \/ \E c \in RCPUS : BorrowSchedule(c)
  \/ \E c \in RCPUS : BorrowTick(c)
  \/ BorrowTimer
  \/ BorrowOffline(BorrowOffCpu)

SpecBorrow == InitBorrow /\ [][NextBorrow]_vars

\* the period timer is due and the first turn of its loop that does anything
\* is for run-queue c, throttled with rt_time above rt_runtime: it calls
\* do_balance_runtime for c in this very state
BalanceCall(c) ==
  /\ bw.rt_period_active = 1
  /\ feat.RT_RUNTIME_SHARE
  /\ rq[c].online
  /\ \A d \in DOMAIN rq : d < c => ~rq[d].online
  /\ rq[c].rt.rt_throttled # 0
  /\ rq[c].rt.rt_runtime # RUNTIME_INF
  /\ rq[c].rt.rt_time > rq[c].rt.rt_runtime

RECURSIVE LoanSum(_)
\* the amounts of a set of loans, added up
LoanSum(S) ==
  IF S = {} THEN 0
  ELSE LET l == CHOOSE x \in S : TRUE IN l.diff + LoanSum(S \ {l})

\* the loans of the last operation were all made to borrower b, in one call
OneCall(b) == lend # {} /\ \A l \in lend : l.borrower = b

\* the borrower's rt_runtime right after the loan l of its call
AfterLoan(b, l) ==
  rq[b].rt.rt_runtime - LoanSum({k \in lend : k.lender > l.lender})

\* C37: in one do_balance_runtime call each peer is visited at most once,
\* no run-queue with rt_runtime = RUNTIME_INF lends, every loan leaves the
\* borrower's rt_runtime at or below rt_period, no peer is asked after the
\* loan that made it rt_period, and the borrower's rt_runtime is at most
\* rt_period when the call returns.
C37_BorrowBounded ==
  /\ \A l \in lend :
       /\ l.lender # l.borrower
       /\ l.rt_runtime # RUNTIME_INF
       /\ \A m \in lend :
            (m.borrower = l.borrower /\ m.lender = l.lender) => m = l
  /\ \A b \in DOMAIN rq :
       OneCall(b) =>
         \A l \in lend :
           /\ AfterLoan(b, l) <= bw.rt_period
           /\ (\E m \in lend : m.lender > l.lender) =>
                 AfterLoan(b, l) < bw.rt_period
  /\ \A c \in DOMAIN rq :
       BalanceCall(c) =>
          balance_runtime(World, c).rq[c].rt.rt_runtime <= bw.rt_period

\* ------------------------------------------------------------------
\* Load attachment over wake, sleep, migrate and exit.
\* init_rt_entity_runnable_average: the averages of a task that has never
\* been queued
init_rt_entity_runnable_average ==
  [ util_avg |-> 0, util_sum |-> 0, load_avg |-> 0, load_sum |-> 0,
    last_update_time |-> 0, period_contrib |-> 1023 ]

\* task_dead_rt(p): remove_rt_entity_load_avg, that is
\* sync_rt_entity_load_avg against the stamp of the run-queue of p's CPU and
\* the synced averages added to its removed_* counters; the stamp of the
\* task is left as the sync wrote it
task_dead_rt(W, p) ==
  LET c == W.task[p].cpu
      synced == __update_load_avg(W.task[p].avg,
                                  W.rq[c].rt.avg.last_update_time, 1024,
                                  W.rq[c].rt.curr = p)
  IN [W EXCEPT !.rq[c].rt.removed_load_avg = @ + synced.load_avg,
               !.rq[c].rt.removed_util_avg = @ + synced.util_avg,
               !.task[p].avg = synced]

\* the tasks that wake, sleep, migrate and exit
AttachTasks == {"t1", "t2"}

\* a task that has exited: finish_task_switch has called task_dead and the
\* task is never woken again
Dead(p) == task[p].class = "dead"

\* every task is new: its averages are as init_rt_entity_runnable_average
\* leaves them
InitAttach ==
  /\ rq = [c \in CPUS |-> InitRq(RUNTIME_INF)]
  /\ task = [t \in TASKS |->
               [InitTask(t) EXCEPT !.avg = init_rt_entity_runnable_average]]
  /\ rd = InitRd
  /\ bw = InitBw(RUNTIME_INF)
  /\ feat = [RT_RUNTIME_SHARE |-> FALSE, RT_PUSH_IPI |-> FALSE,
             PREEMPT |-> FALSE]
  /\ bug = {}
  /\ lend = {}
  /\ over = {}
  /\ trace = {}
  /\ lock = [c \in CPUS |-> -1]
  /\ pc = [e \in CPUS |-> NoOp]

\* wake_up_new_task queues a new task on the CPU it was given at fork
\* (__set_task_cpu, no migrate_task_rq); every later wake-up is a
\* try_to_wake_up onto any allowed CPU.  A wake-up onto another CPU is
\* taken only while that CPU's task clock is ahead of the task's stamp,
\* which bounds the number of migrations by MaxClock.
AttachWake(p, cpu) ==
  /\ ~Dead(p)
  /\ task[p].avg.last_update_time = 0 => cpu = task[p].cpu
  /\ cpu # task[p].cpu => task[p].avg.last_update_time < rq[cpu].clock_task
  /\ WakeUp(p, cpu, FALSE)

\* the task has left its last run-queue in TASK_DEAD: task_dead_rt
AttachExit(p) ==
  /\ ~Dead(p)
  /\ task[p].on_rq = 0 /\ ~task[p].on_cpu
  /\ task[p].avg.last_update_time # 0
  /\ Set([task_dead_rt(World, p) EXCEPT !.task[p].class = "dead"])

NextAttach ==
  \/ \E p \in AttachTasks, cpu \in CPUS : AttachWake(p, cpu)
  \/ \E c \in CPUS, sleep \in BOOLEAN : Schedule(c, sleep)
  \/ \E c \in CPUS : Tick(c)
  \/ \E c \in CPUS : ClockAdvance(c)
  \/ \E p \in AttachTasks : AttachExit(p)

SpecAttach == InitAttach /\ [][NextAttach]_vars

\* the task's averages are part of the aggregate of the run-queue of its CPU
Attached(p) == task[p].avg.last_update_time # 0

\* update_rt_rq_load_avg on CPU c would change nothing: the aggregate is up
\* to the task clock and nothing waits in the removed_* counters
Quiet(c) ==
  /\ rq[c].rt.avg.last_update_time = rq[c].clock_task
  /\ rq[c].rt.removed_util_avg = 0 /\ rq[c].rt.removed_load_avg = 0

AddAggregates(a, b) == [i \in 1 .. 4 |-> a[i] + b[i]]

\* what remove_rt_entity_load_avg hands over
Removed(c) == <<rq[c].rt.removed_load_avg, rq[c].rt.removed_util_avg>>
Handed(sa) == <<sa.load_avg, sa.util_avg>>

\* a first attach: the stamp of p goes from 0 to the stamp of the run-queue
FirstAttach(p) ==
  (~Attached(p) /\ Attached(p)') =>
    /\ task[p].on_rq = 0 /\ task'[p].on_rq = 1
    /\ task'[p].avg.last_update_time
         = rq'[task'[p].cpu].rt.avg.last_update_time
    /\ (task'[p].cpu = task[p].cpu /\ Quiet(task[p].cpu)) =>
         Aggregates(rq'[task[p].cpu].rt.avg)
           = AddAggregates(Aggregates(rq[task[p].cpu].rt.avg),
                           Aggregates(task'[p].avg))

\* an attached task queued again on its own CPU is not attached again
NoReattach(p) ==
  (/\ Attached(p) /\ ~Dead(p)
   /\ task[p].on_rq = 0 /\ task'[p].on_rq = 1
   /\ task'[p].cpu = task[p].cpu /\ Quiet(task[p].cpu)) =>
    Aggregates(rq'[task[p].cpu].rt.avg) = Aggregates(rq[task[p].cpu].rt.avg)

\* p is the only task whose CPU changes in the step
OnlyMover(p) == \A q \in TASKS \ {p} : task'[q].cpu = task[q].cpu

\* a migration of an attached task from c to d: the old run-queue is handed
\* the contribution once, the new one attaches it once
MigrateOnce(p) ==
  (Attached(p) /\ ~Dead(p) /\ task'[p].cpu # task[p].cpu) =>
    \A c, d \in CPUS :
      (c = task[p].cpu /\ d = task'[p].cpu) =>
       /\ Attached(p)' /\ task'[p].on_rq = 1
       /\ task'[p].avg.last_update_time = rq'[d].rt.avg.last_update_time
       /\ OnlyMover(p) =>
            /\ Removed(c)' \in
                 { Handed(task'[p].avg),
                   <<Removed(c)[1] + task'[p].avg.load_avg,
                     Removed(c)[2] + task'[p].avg.util_avg>> }
            /\ Quiet(d) =>
                 Aggregates(rq'[d].rt.avg)
                   = AddAggregates(Aggregates(rq[d].rt.avg),
                                   Aggregates(task'[p].avg))

\* task exit hands the contribution to the run-queue of the task's CPU once
\* and touches no aggregate; a dead task is never touched again
ExitOnce(p) ==
  /\ (~Dead(p) /\ Dead(p)') =>
       \A c \in {task[p].cpu} :
          /\ Attached(p)
          /\ Removed(c)' = <<Removed(c)[1] + task'[p].avg.load_avg,
                             Removed(c)[2] + task'[p].avg.util_avg>>
          /\ \A e \in CPUS : rq'[e].rt.avg = rq[e].rt.avg
          /\ \A e \in CPUS \ {c} : Removed(e)' = Removed(e)
  /\ Dead(p) => task'[p] = task[p]

\* the removed_* counters of a run-queue take a new non-zero value only in
\* a step in which an attached task leaves that run-queue
RemovedByLeaving(c) ==
  (Removed(c)' # Removed(c) /\ Removed(c)' # <<0, 0>>) =>
    \E p \in TASKS :
      /\ Attached(p) /\ ~Dead(p) /\ task[p].cpu = c
      /\ task'[p].cpu # c \/ Dead(p)'

\* between operations only a task that was never queued is unattached: a
\* migration's reset of last_update_time is always followed by the attach
UnattachedIsNew ==
  \A p \in TASKS :
    ~Attached(p) =>
      task[p].on_rq = 0 /\ task[p].avg = init_rt_entity_runnable_average

\* C38: No double-counted load.  A task's averages are attached to a
\* run-queue aggregate only in a step that queues it while its
\* last_update_time is 0, and then exactly its averages are added; queueing
\* an attached task again on its CPU adds nothing; a migration hands the
\* synced averages to the old run-queue's removed_load_avg and
\* removed_util_avg once and attaches them once to the new run-queue; task
\* exit hands them over once; the removed counters are fed by nothing else.
C38_NoDoubleCount ==
  /\ []UnattachedIsNew
  /\ [][/\ \A p \in TASKS :
             FirstAttach(p) /\ NoReattach(p) /\ MigrateOnce(p) /\ ExitOnce(p)
        /\ \A c \in CPUS : RemovedByLeaving(c)]_vars

\* a task with non-zero averages was migrated: its contribution waits in
\* the old run-queue's removed counters and is part of the new aggregate,
\* and another task has exited
C38_Witness ==
  /\ task["t1"].cpu = 1 /\ task["t1"].on_rq = 1 /\ Attached("t1")
  /\ task["t1"].avg.util_avg > 0
  /\ rq[0].rt.removed_util_avg = task["t1"].avg.util_avg
  /\ rq[1].rt.avg.util_avg >= task["t1"].avg.util_avg
  /\ Dead("t2")

\* ------------------------------------------------------------------
\* Round-robin time slice.
\* get_rr_interval_rt: sched_rr_timeslice for SCHED_RR, 0 otherwise
get_rr_interval_rt(W, p) ==
  IF W.task[p].policy = "RR" THEN RR_TIMESLICE ELSE 0

\* the world after the tick of the task running on c, and after the
\* update_curr_rt the tick starts with
TickOf(c, delta) == task_tick_rt(Clocked(c, delta), c, rq[c].curr)
TickBase(c, delta) == update_curr_rt(Clocked(c, delta), c)

\* another entity is on the priority list of p
SharesList(c, p) ==
  \E i \in 1 .. Len(rq[c].rt.active.queue[task[p].prio]) :
    rq[c].rt.active.queue[task[p].prio][i] # p

\* the priority list of p with p moved behind the others
MovedToTail(c, p) ==
  Append(SelectSeq(rq[c].rt.active.queue[task[p].prio],
                   LAMBDA q : q # p), p)

\* C39: Round-robin time slice.  A tick of a running SCHED_RR task
\* decrements its time_slice; when that reaches 0 the slice is reset to
\* sched_rr_timeslice and, exactly when another entity shares the task's
\* priority list, the task is moved to the tail of the list and a
\* reschedule is requested.  A tick of a SCHED_FIFO task leaves slice and
\* lists alone, and get_rr_interval_rt is 0 for it.
C39_RoundRobin ==
  \A c \in CPUS :
    curr_is_rt(World, c) =>
      \A delta \in Deltas(c) \ {0} :
        LET p == rq[c].curr
            V == TickOf(c, delta)
            B == TickBase(c, delta)
            lists == rq[c].rt.active.queue
            expire == task[p].policy = "RR" /\ task[p].time_slice = 1
            moved == expire /\ SharesList(c, p)
        IN /\ task[p].time_slice \in 1 .. RR_TIMESLICE
           /\ V.task[p].time_slice =
                IF task[p].policy # "RR" THEN task[p].time_slice
                ELSE IF expire THEN RR_TIMESLICE
                ELSE task[p].time_slice - 1
           /\ V.rq[c].rt.active.queue =
                IF moved
                THEN [lists EXCEPT ![task[p].prio] = MovedToTail(c, p)]
                ELSE lists
           /\ V.rq[c].need_resched = (B.rq[c].need_resched \/ moved)
           /\ V.rq[c].curr = p
           /\ get_rr_interval_rt(World, p)
                = IF task[p].policy = "RR" THEN RR_TIMESLICE ELSE 0
           /\ task[p].policy = "FIFO" => get_rr_interval_rt(World, p) = 0

\* ticks have brought the slice of the running SCHED_RR task t2 down to
\* its last unit while t1 waits behind it on the same list: the next tick
\* refills the slice, moves t2 behind t1 and asks for a reschedule
C39_Witness ==
  \E c \in CPUS :
    /\ rq[c].curr = "t2" /\ task["t2"].policy = "RR"
    /\ rq[c].rt.active.queue[task["t2"].prio] = <<"t2", "t1">>
    /\ task["t2"].time_slice = 1 /\ RR_TIMESLICE > 1
    /\ ~rq[c].need_resched
    /\ \E delta \in Deltas(c) \ {0} :
         /\ TickOf(c, delta).rq[c].rt.active.queue[task["t2"].prio]
              = <<"t1", "t2">>
         /\ TickOf(c, delta).rq[c].need_resched
         /\ TickOf(c, delta).task["t2"].time_slice = RR_TIMESLICE

\* ------------------------------------------------------------------
\* C40: every CPU that select_proper_cpu or select_idle_cpu answers for a
\* waking task, the previous CPU they fall back to included, is an active
\* CPU of the task's cpus_allowed.  select_idle_cpu is called for a
\* prefer-idle task only and may answer no CPU at all.
C40_ActiveAllowed ==
  \A ev \in trace :
    LET e == ev.env
        eenv == eco_env(World, e)
        proper == select_proper_cpu(World, eenv)
        idle == select_idle_cpu(World, eenv).cpu
        Ok(c) == cpu_active(World, c) /\ c \in e.p.cpus_allowed
    IN /\ cpu_selected(proper) => Ok(proper)
       /\ (e.prefer_idle > 0 /\ cpu_selected(idle)) => Ok(idle)

====
